---- MODULE Spec2Model ----
(***************************************************************************)
(* LogiMint: the case-code pattern matcher (utils/pattern_matcher.py over  *)
(* the registry of config/patterns.py).  Strings are sequences of          *)
(* characters; a character is a one-letter string, "NBSP" stands for       *)
(* U+00A0, the one non-ASCII character of the alphabet, and "BACKTICK"     *)
(* for U+0060.  The module also holds the alias resolvers, the similarity  *)
(* score, workers calling the functions side by side, and the legacy       *)
(* extractor of tools/smoke_extract.py, the walk over the email files       *)
(* (utils/file_handler.py), the concurrent gathering of their metadata and  *)
(* the summary (comprehensive_email_mapper.py), the cargo status rules      *)
(* (hvdc_cargo_tracking_system.py) and the logger set-up (hvdc/logging.py); *)
(* each has a specification of its own over the same variables.             *)
(***************************************************************************)
EXTENDS Integers, Sequences, FiniteSets, TLC

VARIABLES arg, nfrags, pc, result, raised, matches, seen, op, other, candidates, threshold, tables, workers,
          tree, settings, tasks, sem, results, loggers,
          row, records, payload, email_path, items

vars == <<arg, nfrags, pc, result, raised, matches, seen, op, other, candidates, threshold, tables, workers,
          tree, settings, tasks, sem, results, loggers,
    row, records, payload, email_path, items>>

\* What a caller of find_case_codes leaves alone.
notFind == <<op, other, candidates, threshold, tables, workers,
    tree, settings, tasks, sem, results, loggers,
    row, records, payload, email_path, items>>

\* What a caller of the alias resolvers leaves alone.
notAlias == <<matches, seen, other, candidates, threshold, tables, workers,
    tree, settings, tasks, sem, results, loggers,
    row, records, payload, email_path, items>>

\* Largest number of fragments a composed subject line is built from.
MaxFrags == 4

Min(a, b) == IF a < b THEN a ELSE b

Range(s) == {s[i] : i \in DOMAIN s}

----------------------------------------------------------------------------
(* Characters: code points, classes, case mapping, NFKC.                   *)

\* ASCII 32..126 in code-point order.
Printable == <<" ", "!", "\"", "#", "$", "%", "&", "'", "(", ")", "*", "+", ",", "-", ".", "/", "0", "1", "2", "3", "4", "5", "6", "7", "8", "9", ":", ";", "<", "=", ">", "?", "@", "A", "B", "C", "D", "E", "F", "G", "H", "I", "J", "K", "L", "M", "N", "O", "P", "Q", "R", "S", "T", "U", "V", "W", "X", "Y", "Z", "[", "\\", "]", "^", "_", "BACKTICK", "a", "b", "c", "d", "e", "f", "g", "h", "i", "j", "k", "l", "m", "n", "o", "p", "q", "r", "s", "t", "u", "v", "w", "x", "y", "z", "{", "|", "}", "~">>

Chars == Range(Printable) \cup {"NBSP"}

\* ord(c)
Ord == [c \in Chars |-> IF c = "NBSP" THEN 160 ELSE 31 + (CHOOSE i \in DOMAIN Printable : Printable[i] = c)]

UpperLetters == {c \in Chars : Ord[c] >= 65 /\ Ord[c] <= 90}

LowerLetters == {c \in Chars : Ord[c] >= 97 /\ Ord[c] <= 122}

\* [A-Z] under re.IGNORECASE
Letters == UpperLetters \cup LowerLetters

\* [0-9], and \d within the alphabet
Digits == {c \in Chars : Ord[c] >= 48 /\ Ord[c] <= 57}

\* [A-Z0-9] under re.IGNORECASE
Alnum == Letters \cup Digits

\* [A-Z0-9\-] under re.IGNORECASE
AlnumHyphen == Alnum \cup {"-"}

\* \s, and what str.strip() removes, within the alphabet
Whitespace == {" ", "NBSP"}

CharLower == [c \in Chars |-> IF c \in UpperLetters THEN Printable[Ord[c] + 32 - 31] ELSE c]

CharUpper == [c \in Chars |-> IF c \in LowerLetters THEN Printable[Ord[c] - 32 - 31] ELSE c]

\* unicodedata.normalize("NFKC", .) on one character: U+00A0 becomes a space
CharNFKC == [c \in Chars |-> IF c = "NBSP" THEN " " ELSE c]

\* str.lower()
lower(s) == [i \in DOMAIN s |-> CharLower[s[i]]]

\* str.upper()
upper(s) == [i \in DOMAIN s |-> CharUpper[s[i]]]

NFKC(s) == [i \in DOMAIN s |-> CharNFKC[s[i]]]

RECURSIVE lstrip(_)
lstrip(s) == IF s # <<>> /\ Head(s) \in Whitespace THEN lstrip(Tail(s)) ELSE s

RECURSIVE rstrip(_)
rstrip(s) == IF s # <<>> /\ s[Len(s)] \in Whitespace THEN rstrip(SubSeq(s, 1, Len(s) - 1)) ELSE s

\* str.strip()
strip(s) == rstrip(lstrip(s))

\* a < b for Python strings: lexicographic by code point
StrLess(a, b) ==
    \E k \in 1..(Min(Len(a), Len(b)) + 1) :
        /\ \A j \in 1..(k - 1) : a[j] = b[j]
        /\ \/ k > Len(a) /\ k <= Len(b)
           \/ k <= Len(a) /\ k <= Len(b) /\ Ord[a[k]] < Ord[b[k]]

RECURSIVE sorted(_)
\* sorted(set): the elements in ascending order
sorted(S) ==
    IF S = {} THEN <<>>
    ELSE LET m == CHOOSE x \in S : \A y \in S \ {x} : StrLess(x, y)
         IN <<m>> \o sorted(S \ {m})

----------------------------------------------------------------------------
(* The pattern registry and the matching of its regular expressions.       *)

\* The rule names, in registration order.
PATTERN_DEFINITIONS == <<"HVDC_ADOPT", "HVDC_GENERIC", "JPTW_GRM", "PAREN_ANY", "TRAILING">>

\* The keys of the compiled registry.
COMPILED_PATTERNS == Range(PATTERN_DEFINITIONS)

LIT_HVDC_ADOPT == <<"H", "V", "D", "C", "-", "A", "D", "O", "P", "T", "-">>

LIT_HVDC == <<"H", "V", "D", "C", "-">>

\* The literal lit matches s at position i, ignoring case.
LitAt(s, i, lit) ==
    /\ i + Len(lit) - 1 <= Len(s)
    /\ \A k \in 1..Len(lit) : CharLower[s[i + k - 1]] = CharLower[lit[k]]

RECURSIVE RunEnd(_, _, _)
\* The position after the longest run of characters of class C starting at i.
RunEnd(s, i, C) == IF i <= Len(s) /\ s[i] \in C THEN RunEnd(s, i + 1, C) ELSE i

CharAt(s, i, c) == i <= Len(s) /\ s[i] = c

NoMatch == [start |-> 0, end |-> 0, g1 |-> <<>>, g2 |-> <<>>]

\* A match over s[start..end-1] with capture groups g1 and g2.
Hit(start, end, g1, g2) == [start |-> start, end |-> end, g1 |-> g1, g2 |-> g2]

\* HVDC-ADOPT-[A-Z]+-[0-9]{3,5}
MatchHvdcAdopt(s, i) ==
    LET p1 == i + Len(LIT_HVDC_ADOPT)
        p2 == RunEnd(s, p1, Letters)
        p3 == p2 + 1
        p4 == RunEnd(s, p3, Digits)
    IN IF LitAt(s, i, LIT_HVDC_ADOPT) /\ p2 > p1 /\ CharAt(s, p2, "-") /\ p4 - p3 >= 3
       THEN Hit(i, p3 + Min(p4 - p3, 5), <<>>, <<>>)
       ELSE NoMatch

\* HVDC-[A-Z]+-[A-Z0-9]+-[A-Z0-9\-]+
MatchHvdcGeneric(s, i) ==
    LET p1 == i + Len(LIT_HVDC)
        p2 == RunEnd(s, p1, Letters)
        p3 == p2 + 1
        p4 == RunEnd(s, p3, Alnum)
        p5 == p4 + 1
        p6 == RunEnd(s, p5, AlnumHyphen)
    IN IF /\ LitAt(s, i, LIT_HVDC) /\ p2 > p1 /\ CharAt(s, p2, "-")
          /\ p4 > p3 /\ CharAt(s, p4, "-") /\ p6 > p5
       THEN Hit(i, p6, <<>>, <<>>)
       ELSE NoMatch

\* JPTW-(\d+)\s*/\s*GRM-(\d+)
MatchJptwGrm(s, i) ==
    LET jptw == <<"J", "P", "T", "W", "-">>
        grm == <<"G", "R", "M", "-">>
        p1 == i + Len(jptw)
        p2 == RunEnd(s, p1, Digits)
        p3 == RunEnd(s, p2, Whitespace)
        p4 == RunEnd(s, p3 + 1, Whitespace)
        p5 == p4 + Len(grm)
        p6 == RunEnd(s, p5, Digits)
    IN IF /\ LitAt(s, i, jptw) /\ p2 > p1 /\ CharAt(s, p3, "/")
          /\ LitAt(s, p4, grm) /\ p6 > p5
       THEN Hit(i, p6, SubSeq(s, p1, p2 - 1), SubSeq(s, p5, p6 - 1))
       ELSE NoMatch

\* \(([^\)]+)\)
MatchParenAny(s, i) ==
    LET p1 == i + 1
        p2 == RunEnd(s, p1, (Chars \ {")"}))
    IN IF CharAt(s, i, "(") /\ p2 > p1 /\ CharAt(s, p2, ")")
       THEN Hit(i, p2 + 1, SubSeq(s, p1, p2 - 1), <<>>)
       ELSE NoMatch

RECURSIVE SegmentsEnd(_, _, _)
\* (?:-[A-Z0-9]+){n,} from position p: <<position after the last segment, segments taken>>
SegmentsEnd(s, p, n) ==
    LET q == RunEnd(s, p + 1, Alnum)
    IN IF CharAt(s, p, "-") /\ q > p + 1 THEN SegmentsEnd(s, q, n + 1) ELSE <<p, n>>

\* TRAILING with the group opened right after the colon: (\s*[A-Z]+...)
MatchTrailing_FromColon(s, i) ==
    LET p1 == RunEnd(s, i + 1, Whitespace)
        p2 == RunEnd(s, p1, Letters)
        seg == SegmentsEnd(s, p2, 0)
    IN IF CharAt(s, i, ":") /\ p2 > p1 /\ seg[2] >= 2
       THEN Hit(i, seg[1], SubSeq(s, i + 1, seg[1] - 1), <<>>)
       ELSE NoMatch

\* :\s*([A-Z]+(?:-[A-Z0-9]+){2,})
MatchTrailing(s, i) ==
    LET p1 == RunEnd(s, i + 1, Whitespace)
        p2 == RunEnd(s, p1, Letters)
        seg == SegmentsEnd(s, p2, 0)
    IN IF CharAt(s, i, ":") /\ p2 > p1 /\ seg[2] >= 2
       THEN Hit(i, seg[1], SubSeq(s, p1, seg[1] - 1), <<>>)
       ELSE NoMatch

\* pattern3_inner of the legacy extractor: ([A-Z]+)-([0-9]+(?:-[0-9A-Z]+)?)
MatchParenInner(s, i) ==
    LET p2 == RunEnd(s, i, Letters)
        p3 == p2 + 1
        p4 == RunEnd(s, p3, Digits)
        p5 == RunEnd(s, p4 + 1, Alnum)
        end == IF CharAt(s, p4, "-") /\ p5 > p4 + 1 THEN p5 ELSE p4
    IN IF p2 > i /\ CharAt(s, p2, "-") /\ p4 > p3
       THEN Hit(i, end, SubSeq(s, i, p2 - 1), SubSeq(s, p3, end - 1))
       ELSE NoMatch

\* pattern1 of the legacy extractor: HVDC-ADOPT-([A-Z]+)-([A-Z0-9\-]+)
MatchLegacyAdopt(s, i) ==
    LET p1 == i + Len(LIT_HVDC_ADOPT)
        p2 == RunEnd(s, p1, Letters)
        p3 == p2 + 1
        p4 == RunEnd(s, p3, AlnumHyphen)
    IN IF LitAt(s, i, LIT_HVDC_ADOPT) /\ p2 > p1 /\ CharAt(s, p2, "-") /\ p4 > p3
       THEN Hit(i, p4, SubSeq(s, p1, p2 - 1), SubSeq(s, p3, p4 - 1))
       ELSE NoMatch

\* pattern2 of the legacy extractor: HVDC-([A-Z]+)-([A-Z]+)-([A-Z0-9\-]+);
\* g1 is the text of the first two groups with their hyphen, g2 the third.
MatchLegacyGeneric(s, i) ==
    LET p1 == i + Len(LIT_HVDC)
        p2 == RunEnd(s, p1, Letters)
        p3 == p2 + 1
        p4 == RunEnd(s, p3, Letters)
        p5 == p4 + 1
        p6 == RunEnd(s, p5, AlnumHyphen)
    IN IF /\ LitAt(s, i, LIT_HVDC) /\ p2 > p1 /\ CharAt(s, p2, "-")
          /\ p4 > p3 /\ CharAt(s, p4, "-") /\ p6 > p5
       THEN Hit(i, p6, SubSeq(s, p1, p4 - 1), SubSeq(s, p5, p6 - 1))
       ELSE NoMatch

\* The rule `name` matched at position i of s: the compiled registry rules
\* and the rules of the legacy extractor.
Match(name, s, i) ==
    CASE name = "HVDC_ADOPT" -> MatchHvdcAdopt(s, i)
      [] name = "HVDC_GENERIC" -> MatchHvdcGeneric(s, i)
      [] name = "JPTW_GRM" -> MatchJptwGrm(s, i)
      [] name = "PAREN_ANY" -> MatchParenAny(s, i)
      [] name = "TRAILING" -> MatchTrailing(s, i)
      [] name = "PAREN_INNER" -> MatchParenInner(s, i)
      [] name = "LEGACY_ADOPT" -> MatchLegacyAdopt(s, i)
      [] name = "LEGACY_GENERIC" -> MatchLegacyGeneric(s, i)

RECURSIVE finditer(_, _, _)
\* The scan after the attempt m at position i: on without a match, or the
\* match and then on from its end.
after_match(name, s, i, m) ==
    IF m.end = 0 THEN finditer(name, s, i + 1)
    ELSE <<m>> \o finditer(name, s, m.end)

\* The non-overlapping matches of a rule in s from position i on, left to right.
finditer(name, s, i) ==
    IF i > Len(s) THEN <<>>
    ELSE after_match(name, s, i, Match(name, s, i))

\* The text of a match.
group0(s, m) == SubSeq(s, m.start, m.end - 1)

----------------------------------------------------------------------------
(* Python values handed to the functions: a str, None, an int or bytes.    *)

StrArg(chars) == [type |-> "str", chars |-> chars, num |-> 0]

NoneArg == [type |-> "NoneType", chars |-> <<>>, num |-> 0]

IntArg(n) == [type |-> "int", chars |-> <<>>, num |-> n]

BytesArg(chars) == [type |-> "bytes", chars |-> chars, num |-> 0]

\* bool(a)
Truthy(a) ==
    CASE a.type = "NoneType" -> FALSE
      [] a.type = "int" -> a.num # 0
      [] OTHER -> a.chars # <<>>

\* OrEmpty without the fallback: the subject is passed on as it is.
OrEmpty_NoFallback(subject) == subject

\* subject or ""
OrEmpty(subject) == IF Truthy(subject) THEN subject ELSE StrArg(<<>>)

\* normalize_subject: NFKC, strip, lower; unicodedata.normalize raises
\* TypeError for a value that is not a str.
normalize_subject(subject) ==
    LET x == OrEmpty(subject)
    IN IF x.type # "str"
       THEN [raised |-> "TypeError", value |-> <<>>]
       ELSE [raised |-> "none", value |-> lower(strip(NFKC(x.chars)))]

----------------------------------------------------------------------------
(* find_case_codes                                                         *)

F_JPTW == <<"J", "P", "T", "W", "-">>

F_GRM == <<"/", "G", "R", "M", "-">>

\* adopt without .upper()
adopt_NoUpper(work) ==
    LET ms == finditer("HVDC_ADOPT", work, 1)
    IN [i \in DOMAIN ms |-> group0(work, ms[i])]

\* [value.upper() for value in COMPILED_PATTERNS["HVDC_ADOPT"].findall(work)]
adopt(work) ==
    LET ms == finditer("HVDC_ADOPT", work, 1)
    IN [i \in DOMAIN ms |-> upper(group0(work, ms[i]))]

\* generic that keeps only the first match (search in place of findall)
generic_FirstOnly(work) ==
    LET ms == finditer("HVDC_GENERIC", work, 1)
    IN [i \in DOMAIN ms \cap {1} |-> upper(group0(work, ms[i]))]

\* [value.upper() for value in COMPILED_PATTERNS["HVDC_GENERIC"].findall(work)]
generic(work) ==
    LET ms == finditer("HVDC_GENERIC", work, 1)
    IN [i \in DOMAIN ms |-> upper(group0(work, ms[i]))]

RECURSIVE StripZeros(_)
\* str(int(digits)): the digits without their leading zeros
StripZeros(d) == IF Len(d) > 1 /\ Head(d) = "0" THEN StripZeros(Tail(d)) ELSE d

\* jptw_grm that formats the captured numbers as integers
jptw_grm_AsInt(work) ==
    LET ms == finditer("JPTW_GRM", work, 1)
    IN [i \in DOMAIN ms |-> F_JPTW \o StripZeros(ms[i].g1) \o F_GRM \o StripZeros(ms[i].g2)]

\* f"JPTW-{match.group(1)}/GRM-{match.group(2)}" for each JPTW_GRM match
jptw_grm(work) ==
    LET ms == finditer("JPTW_GRM", work, 1)
    IN [i \in DOMAIN ms |-> F_JPTW \o ms[i].g1 \o F_GRM \o ms[i].g2]

\* trailing without the upper(): the captured code as the lower-cased text has it.
trailing_NoUpper(work) ==
    LET ms == finditer("TRAILING", work, 1)
    IN [i \in DOMAIN ms |-> ms[i].g1]

\* match.upper() for each group of COMPILED_PATTERNS["TRAILING"].findall(work)
trailing(work) ==
    LET ms == finditer("TRAILING", work, 1)
    IN [i \in DOMAIN ms |-> upper(ms[i].g1)]

\* The values in the order in which find_case_codes adds them to `matches`.
collected(work) == adopt(work) \o generic(work) \o jptw_grm(work) \o trailing(work)

\* The registry keys find_case_codes looks up; a missing key is a KeyError.
LookedUp == {"HVDC_ADOPT", "HVDC_GENERIC", "JPTW_GRM", "TRAILING"}

\* A set that outlives the call: the codes of the call before are still in it.
NewSet_ModuleLevel == matches

\* matches: Set[str] = set()
NewSet == {}

find_case_codes(text) ==
    LET n == normalize_subject(text)
    IN IF n.raised # "none"
       THEN [raised |-> n.raised, value |-> <<>>]
       ELSE IF ~(LookedUp \subseteq COMPILED_PATTERNS)
       THEN [raised |-> "PatternMatchError", value |-> <<>>]
       ELSE [raised |-> "none", value |-> sorted(NewSet \cup Range(collected(n.value)))]

----------------------------------------------------------------------------
(* The alias tables and the two resolvers.                                 *)

VENDOR_ALIASES ==
    (<<"h", "e">> :> <<"H", "i", "t", "a", "c", "h", "i", " ", "E", "n", "e", "r", "g", "y">>) @@
    (<<"h", "i", "t", "a", "c", "h", "i", " ", "e", "n", "e", "r", "g", "y">> :> <<"H", "i", "t", "a", "c", "h", "i", " ", "E", "n", "e", "r", "g", "y">>) @@
    (<<"h", "i", "t", "a", "c", "h", "i">> :> <<"H", "i", "t", "a", "c", "h", "i", " ", "E", "n", "e", "r", "g", "y">>) @@
    (<<"s", "c", "t">> :> <<"S", "a", "m", "s", "u", "n", "g", " ", "C", "&", "T">>) @@
    (<<"s", "a", "m", "s", "u", "n", "g", " ", "c", "&", "t">> :> <<"S", "a", "m", "s", "u", "n", "g", " ", "C", "&", "T">>) @@
    (<<"m", "o", "s", "b">> :> <<"M", "O", "S", "B">>) @@
    (<<"a", "l", "s">> :> <<"A", "L", "S">>)

SITE_ALIASES ==
    (<<"d", "a", "s">> :> <<"D", "A", "S", " ", "S", "i", "t", "e">>) @@
    (<<"a", "g", "i">> :> <<"A", "G", "I", " ", "S", "i", "t", "e">>) @@
    (<<"m", "i", "r">> :> <<"M", "I", "R", " ", "S", "i", "t", "e">>) @@
    (<<"m", "i", "r", "f", "a">> :> <<"M", "I", "R", "F", "A", " ", "S", "i", "t", "e">>) @@
    (<<"g", "h", "a", "l", "l", "a", "n">> :> <<"G", "H", "A", "L", "L", "A", "N", " ", "S", "i", "t", "e">>)

\* dict.get(key, default)
get(table, key, default) == IF key \in DOMAIN table THEN table[key] ELSE default

\* str.title(): a letter is upper-cased when no letter stands before it and
\* lower-cased when one does.
title(s) ==
    [i \in DOMAIN s |->
        IF s[i] \notin Letters THEN s[i]
        ELSE IF i > 1 /\ s[i - 1] \in Letters THEN CharLower[s[i]] ELSE CharUpper[s[i]]]

\* The vendor lookup with the token as given for a key.
match_vendor_alias_RawKey(alias) == get(VENDOR_ALIASES, alias, title(strip(alias)))

\* VENDOR_ALIASES.get(normalize_subject(alias), alias.strip().title())
match_vendor_alias(alias) ==
    LET key == normalize_subject(StrArg(alias)).value
    IN get(VENDOR_ALIASES, key, title(strip(alias)))

\* SITE_ALIASES.get(normalize_subject(alias), alias.strip().upper())
match_site_alias(alias) ==
    LET key == normalize_subject(StrArg(alias)).value
    IN get(SITE_ALIASES, key, upper(strip(alias)))

----------------------------------------------------------------------------
(* The workers that call the functions side by side.                       *)

\* Number of workers.
NumWorkers == 2

Workers == 1..NumWorkers

\* A worker between two calls.
Idle == [op |-> "none", a |-> <<>>, b |-> <<>>, pc |-> "idle", work |-> <<>>, matches |-> {}, result |-> <<>>, raised |-> "none"]

----------------------------------------------------------------------------
(* The settings and the walk over the email files.  A directory tree is    *)
(* the sequence of its entries in the order rglob("*") visits them; an     *)
(* entry has a suffix, is a regular file or not, and parses or not.  The   *)
(* path of an entry is its place in the walk.                              *)

DEFAULT_ALLOWED_EXT == <<<<".", "e", "m", "l">>, <<".", "t", "x", "t">>, <<".", "h", "t", "m", "l">>, <<".", "c", "s", "v">>>>

DEFAULT_OUTLOOK_EXT == <<<<".", "p", "s", "t">>, <<".", "o", "s", "t">>, <<".", "m", "s", "g">>>>

\* HVDCSettings(): the fields the walk and the gathering read, at their
\* defaults.
HVDCSettings ==
    [allowed_extensions |-> DEFAULT_ALLOWED_EXT,
     outlook_extensions |-> DEFAULT_OUTLOOK_EXT,
     max_files |-> NoneArg,
     async_batch_size |-> 32,
     log_directory |-> "./logs",
     log_json |-> FALSE,
     log_rotation_mb |-> 5,
     log_retention |-> 5]

\* The loop of iter_email_files from entry i on, `yielded` paths given out
\* so far: the paths it still yields.
RECURSIVE rglob_loop(_, _, _, _, _, _)
rglob_loop(root, allowed, blocked, max_files, i, yielded) ==
    IF i > Len(root) THEN <<>>
    ELSE IF \/ ~root[i].is_file
            \/ lower(root[i].suffix) \in blocked
            \/ lower(root[i].suffix) \notin allowed
         THEN rglob_loop(root, allowed, blocked, max_files, i + 1, yielded)
         ELSE <<i>> \o (IF max_files.type # "NoneType" /\ yielded + 1 >= max_files.num
                        THEN <<>>
                        ELSE rglob_loop(root, allowed, blocked, max_files, i + 1, yielded + 1))

\* list(iter_email_files(root, settings))
iter_email_files_ListsAsGiven(root, s) ==
    rglob_loop(root, Range(s.allowed_extensions), Range(s.outlook_extensions),
               s.max_files, 1, 0)

iter_email_files(root, s) ==
    rglob_loop(root,
               {lower(ext) : ext \in Range(s.allowed_extensions)},
               {lower(ext) : ext \in Range(s.outlook_extensions)},
               s.max_files, 1, 0)

\* The loop of chunked from item i on, with the batch collected so far.
RECURSIVE chunked_loop(_, _, _, _)
chunked_loop(iterable, size, i, batch) ==
    IF i > Len(iterable) THEN (IF batch # <<>> THEN <<batch>> ELSE <<>>)
    ELSE IF Len(batch) + 1 >= size
         THEN <<Append(batch, iterable[i])>> \o chunked_loop(iterable, size, i + 1, <<>>)
         ELSE chunked_loop(iterable, size, i + 1, Append(batch, iterable[i]))

\* list(chunked(iterable, size))
chunked(iterable, size) == chunked_loop(iterable, size, 1, <<>>)

----------------------------------------------------------------------------
(* The inputs: subject lines composed of fragments, the sample subjects of *)
(* the tests and the spec, and values that are not strings.                *)

----------------------------------------------------------------------------
(* The state machine: a caller builds an argument, calls find_case_codes   *)
(* and gets a list back or sees an exception.                              *)

Init ==
    /\ arg = StrArg(<<>>)
    /\ nfrags = 0
    /\ pc = "compose"
    /\ result = <<>>
    /\ raised = "none"
    /\ matches = {}
    /\ seen = [t \in {} |-> <<>>]
    /\ op = "none"
    /\ other = <<>>
    /\ candidates = <<>>
    /\ threshold = 0
    /\ tables = [patterns |-> COMPILED_PATTERNS, vendors |-> VENDOR_ALIASES, sites |-> SITE_ALIASES]
    /\ workers = [w \in Workers |-> Idle]
    /\ tree = <<>>
    /\ settings = HVDCSettings
    /\ tasks = <<>>
    /\ sem = 0
    /\ results = <<>>
    \* the root logger after logging.basicConfig (config/settings.py, at import)
    /\ loggers = [name \in {"root"} |->
           [handlers |-> <<[kind |-> "FileHandler", file |-> <<"email_scan.log">>,
                            maxBytes |-> 0, backupCount |-> 0, formatter |-> "basicConfig"],
                           [kind |-> "StreamHandler", file |-> <<>>,
                            maxBytes |-> 0, backupCount |-> 0, formatter |-> "basicConfig"]>>,
            level |-> "INFO",
            propagate |-> TRUE]]
    /\ row = [column \in {} |-> "NaT"]
    /\ records = <<>>
    /\ payload = [key \in {} |-> <<>>]
    /\ email_path = "None"
    /\ items = <<>>

\* The caller extends the subject line by one fragment.
AppendFragment(f) ==
    /\ pc = "compose"
    /\ nfrags < MaxFrags
    /\ arg' = StrArg(arg.chars \o f)
    /\ nfrags' = nfrags + 1
    /\ UNCHANGED <<pc, result, raised, matches, seen>>
    /\ UNCHANGED notFind

\* The caller takes one of the sample subject lines.
ChooseSample(s) ==
    /\ pc = "compose"
    /\ nfrags = 0
    /\ arg' = StrArg(s)
    /\ pc' = "ready"
    /\ UNCHANGED <<nfrags, result, raised, matches, seen>>
    /\ UNCHANGED notFind

\* The caller passes a value that is not a string.
ChooseNonString(v) ==
    /\ pc = "compose"
    /\ nfrags = 0
    /\ arg' = v
    /\ pc' = "ready"
    /\ UNCHANGED <<nfrags, result, raised, matches, seen>>
    /\ UNCHANGED notFind

\* The call ends with outcome r: the list it returns or the exception it
\* raises; `matches` is the set the call built.
Ends(r) ==
    /\ result' = r.value
    /\ raised' = r.raised
    /\ matches' = Range(r.value)

\* result = find_case_codes(arg)
Call ==
    /\ pc \in {"compose", "ready"}
    /\ Ends(find_case_codes(arg))
    /\ pc' = "done"
    /\ UNCHANGED <<arg, nfrags, seen>>
    /\ UNCHANGED notFind

\* The caller goes on to its next call.
Return ==
    /\ pc = "done"
    /\ arg' = StrArg(<<>>)
    /\ nfrags' = 0
    /\ pc' = "compose"
    /\ result' = <<>>
    /\ raised' = "none"
    /\ matches' = {}
    /\ UNCHANGED seen
    /\ UNCHANGED notFind

Next ==
    \/ \E f \in ({<<"H", "V", "D", "C", "-", "A", "D", "O", "P", "T", "-", "H", "E", "-", "0", "4", "7">>,
              <<"h", "v", "d", "c", "-", "A", "d", "o", "p", "t", "-", "h", "e", "-", "0", "4", "7">>,
              <<"6">>,
              <<"-">>,
              <<" ">>,
              <<":">>,
              <<"J", "P", "T", "W", "-", "0", "7">>,
              <<"/">>,
              <<"G", "r", "m", "-", "1", "2">>}) : AppendFragment(f)
    \/ \E s \in {<<"F", "w", "d", ":", " ", "H", "V", "D", "C", "-", "A", "D", "O", "P", "T", "-", "H", "E", "-", "0", "4", "7", "6", " ", "-", " ", "D", "o", "c", "s">>, <<"H", "V", "D", "C", "-", "A", "D", "O", "P", "T", "-", "S", "C", "T", "-", "0", "1", "3", "6", " ", "H", "V", "D", "C", "-", "A", "D", "O", "P", "T", "-", "S", "C", "T", "-", "0", "1", "3", "6", " ", "/", " ", "G", "R", "M", "-", "1", "2", "3">>, <<"R", "e", ":", " ", "H", "V", "D", "C", "-", "A", "D", "O", "P", "T", "-", "H", "E", "-", "0", "4", "7", "6", " ", "/", " ", "J", "P", "T", "W", "-", "7", "1", " ", "/", " ", "G", "R", "M", "-", "1", "2", "3">>, <<"(", "H", "E", "-", "0", "4", "2", "7", ",", " ", "H", "E", "-", "0", "4", "2", "8", ")">>, <<"P", "R", "L", "-", "O", "-", "0", "4", "6", "-", "O", "4", "(", "H", "E", "-", "0", "4", "8", "6", ")", " ", "-", " ", "s", "t", "a", "t", "u", "s">>, <<"[", "H", "V", "D", "C", "-", "A", "G", "I", "]", " ", "J", "P", "T", "W", "-", "7", "1", " ", "/", " ", "G", "R", "M", "-", "1", "2", "3">>, <<"NBSP", "F", "w", "d", ":", " ", "h", "v", "d", "c", "-", "A", "g", "i", "-", "o", "p", "s", "-", "a", "b", "1", "2", " ", "-", " ", "s", "c", "h", "e", "d", "u", "l", "e", "NBSP">>, <<"S", "u", "b", "j", "e", "c", "t", ":", " ", "H", "V", "D", "C", "-", "A", "G", "I", "-", "J", "P", "T", "W", "7", "1", "-", "G", "R", "M", "6", "5", "(", "7", "6", "0", "T", "N", ")">>} : ChooseSample(s)
    \/ \E v \in {NoneArg, IntArg(0), IntArg(5), BytesArg(<<>>), BytesArg(<<"x">>)} : ChooseNonString(v)
    \/ Call
    \/ Return

Spec == Init /\ [][Next]_vars

----------------------------------------------------------------------------
(* Repeated calls: one caller calls find_case_codes again and again with   *)
(* subjects it has used before; `seen` keeps what the first call with a    *)
(* subject returned and counts the calls with it.                          *)

\* Largest number of calls made with one subject.
MaxRepeat == 2

\* The caller picks the subject of its next call.
ChooseText(s) ==
    /\ pc = "compose"
    /\ s \in DOMAIN seen => seen[s].count < MaxRepeat
    /\ arg' = StrArg(s)
    /\ pc' = "ready"
    /\ UNCHANGED <<nfrags, result, raised, matches, seen>>
    /\ UNCHANGED notFind

\* result = find_case_codes(arg); the set the call built stays behind.
CallAgain ==
    /\ pc = "ready"
    /\ Ends(find_case_codes(arg))
    /\ LET t == arg.chars
       IN seen' = [u \in DOMAIN seen \cup {t} |->
                     IF u # t THEN seen[u]
                     ELSE IF t \in DOMAIN seen
                          THEN [first |-> seen[t].first, count |-> seen[t].count + 1]
                          ELSE [first |-> result', count |-> 1]]
    /\ pc' = "done"
    /\ UNCHANGED <<arg, nfrags>>
    /\ UNCHANGED notFind

\* The call has returned; the caller goes on.
ReturnAgain ==
    /\ pc = "done"
    /\ pc' = "compose"
    /\ UNCHANGED <<arg, nfrags, result, raised, matches, seen>>
    /\ UNCHANGED notFind

NextRepeat ==
    \/ \E s \in {<<"F", "w", "d", ":", " ", "H", "V", "D", "C", "-", "A", "D", "O", "P", "T", "-", "H", "E", "-", "0", "4", "7", "6", " ", "-", " ", "D", "o", "c", "s">>, <<"H", "V", "D", "C", "-", "A", "D", "O", "P", "T", "-", "S", "C", "T", "-", "0", "1", "3", "6", " ", "H", "V", "D", "C", "-", "A", "D", "O", "P", "T", "-", "S", "C", "T", "-", "0", "1", "3", "6", " ", "/", " ", "G", "R", "M", "-", "1", "2", "3">>, <<"R", "e", ":", " ", "H", "V", "D", "C", "-", "A", "D", "O", "P", "T", "-", "H", "E", "-", "0", "4", "7", "6", " ", "/", " ", "J", "P", "T", "W", "-", "7", "1", " ", "/", " ", "G", "R", "M", "-", "1", "2", "3">>, <<"S", "u", "b", "j", "e", "c", "t", ":", " ", "H", "V", "D", "C", "-", "A", "G", "I", "-", "J", "P", "T", "W", "7", "1", "-", "G", "R", "M", "6", "5", "(", "7", "6", "0", "T", "N", ")">>} : ChooseText(s)
    \/ CallAgain
    \/ ReturnAgain

SpecRepeat == Init /\ [][NextRepeat]_vars

----------------------------------------------------------------------------
(* The callers of the alias resolvers.                                     *)

\* Largest number of fragments a composed token is built from.
MaxTokenFrags == 3

\* The caller extends the token by one fragment.
AppendTokenFragment(f) ==
    /\ pc = "compose"
    /\ nfrags < MaxTokenFrags
    /\ arg' = StrArg(arg.chars \o f)
    /\ nfrags' = nfrags + 1
    /\ UNCHANGED <<pc, result, raised, op>>
    /\ UNCHANGED notAlias

\* The caller takes one of the sample tokens.
ChooseToken(t) ==
    /\ pc = "compose"
    /\ nfrags = 0
    /\ arg' = StrArg(t)
    /\ pc' = "ready"
    /\ UNCHANGED <<nfrags, result, raised, op>>
    /\ UNCHANGED notAlias

\* result = match_vendor_alias(arg)
ResolveVendor ==
    /\ pc \in {"compose", "ready"}
    /\ op' = "match_vendor_alias"
    /\ result' = match_vendor_alias(arg.chars)
    /\ pc' = "done"
    /\ UNCHANGED <<arg, nfrags, raised>>
    /\ UNCHANGED notAlias

\* result = match_site_alias(arg)
ResolveSite ==
    /\ pc \in {"compose", "ready"}
    /\ op' = "match_site_alias"
    /\ result' = match_site_alias(arg.chars)
    /\ pc' = "done"
    /\ UNCHANGED <<arg, nfrags, raised>>
    /\ UNCHANGED notAlias

\* The caller goes on to its next token.
ReturnAlias ==
    /\ pc = "done"
    /\ arg' = StrArg(<<>>)
    /\ nfrags' = 0
    /\ pc' = "compose"
    /\ result' = <<>>
    /\ op' = "none"
    /\ UNCHANGED raised
    /\ UNCHANGED notAlias

NextAlias ==
    \/ \E f \in ({<<" ">>,
              <<"NBSP">>,
              <<"h", "e">>,
              <<"H", "E">>,
              <<"h", "i", "t", "a", "c", "h", "i">>,
              <<"E", "n", "e", "r", "g", "y">>,
              <<"d", "a", "S">>,
              <<"x">>,
              <<"Y">>,
              <<"1">>}) : AppendTokenFragment(f)
    \/ \E t \in ({<<" ", "H", "E", " ">>,
              <<"s", "a", "m", "s", "u", "n", "g", " ", "c", "&", "t">>,
              <<"S", "A", "M", "S", "U", "N", "G", " ", "C", "&", "T">>,
              <<"u", "n", "k", "n", "o", "w", "n", "x", "y", "z">>,
              <<"M", "i", "r", "f", "a">>,
              <<"NBSP", "G", "H", "A", "L", "L", "A", "N", " ">>}) : ChooseToken(t)
    \/ ResolveVendor
    \/ ResolveSite
    \/ ReturnAlias

SpecAlias == Init /\ [][NextAlias]_vars

----------------------------------------------------------------------------
(* score_similarity and fuzzy_contains.  A score is kept in ten-thousandths *)
(* (round(x, 4) has four decimals): 0.82 is 8200 and 1.0 is 10000.          *)

RECURSIVE RunLength(_, _, _, _, _, _)
\* The length of the longest common run of a[i..ahi] and b[j..bhi] that
\* starts at i and j.
RunLength(a, i, ahi, b, j, bhi) ==
    IF i <= ahi /\ j <= bhi /\ a[i] = b[j] THEN 1 + RunLength(a, i + 1, ahi, b, j + 1, bhi) ELSE 0

\* SequenceMatcher.find_longest_match: the longest block common to
\* a[alo..ahi] and b[blo..bhi]; of the longest ones the one that starts
\* earliest in a, and of those the one that starts earliest in b.
find_longest_match(a, alo, ahi, b, blo, bhi) ==
    LET Starts == (alo..ahi) \X (blo..bhi)
        Size(p) == RunLength(a, p[1], ahi, b, p[2], bhi)
        Earlier(p, q) == p[1] < q[1] \/ (p[1] = q[1] /\ p[2] < q[2])
        Longest == {p \in Starts : Size(p) > 0 /\ \A q \in Starts : Size(q) <= Size(p)}
    IN IF Longest = {} THEN [i |-> alo, j |-> blo, size |-> 0]
       ELSE LET p == CHOOSE x \in Longest : \A q \in Longest \ {x} : Earlier(x, q)
            IN [i |-> p[1], j |-> p[2], size |-> Size(p)]

RECURSIVE matching_size(_, _, _, _, _, _)
\* The total size of SequenceMatcher.get_matching_blocks: the longest block,
\* then the blocks to its left and the blocks to its right.
matching_size(a, alo, ahi, b, blo, bhi) ==
    IF alo > ahi \/ blo > bhi THEN 0
    ELSE LET m == find_longest_match(a, alo, ahi, b, blo, bhi)
         IN IF m.size = 0 THEN 0
            ELSE m.size + matching_size(a, alo, m.i - 1, b, blo, m.j - 1)
                        + matching_size(a, m.i + m.size, ahi, b, m.j + m.size, bhi)

\* round(x, 4) of the fraction num / den, in ten-thousandths.
round4(num, den) == (20000 * num + den) \div (2 * den)

\* ratio() that takes two empty sequences for unlike.
ratio_ZeroWhenEmpty(a, b) ==
    LET length == Len(a) + Len(b)
    IN IF length = 0 THEN 0 ELSE round4(2 * matching_size(a, 1, Len(a), b, 1, Len(b)), length)

\* round(SequenceMatcher(a=a, b=b).ratio(), 4): 2.0 * matches / length, and
\* 1.0 when both sequences are empty.
ratio(a, b) ==
    LET length == Len(a) + Len(b)
    IN IF length = 0 THEN 10000 ELSE round4(2 * matching_size(a, 1, Len(a), b, 1, Len(b)), length)

score_similarity(left, right) ==
    ratio(normalize_subject(StrArg(left)).value, normalize_subject(StrArg(right)).value)

\* threshold: float = 0.82
DefaultThreshold == 8200

RECURSIVE fuzzy_contains_Above(_, _, _)
\* fuzzy_contains with > for >=.
fuzzy_contains_Above(term, cands, th) ==
    IF cands = <<>> THEN FALSE
    ELSE IF score_similarity(term, Head(cands)) > th THEN TRUE
    ELSE fuzzy_contains_Above(term, Tail(cands), th)

RECURSIVE fuzzy_contains(_, _, _)
\* for candidate in candidates: if score >= threshold: return True
\* return False
fuzzy_contains(term, cands, th) ==
    IF cands = <<>> THEN FALSE
    ELSE IF score_similarity(term, Head(cands)) >= th THEN TRUE
    ELSE fuzzy_contains(term, Tail(cands), th)

\* Largest length of a composed left or right string.
MaxSimLen == 3

\* What a caller of score_similarity or fuzzy_contains leaves alone.
notSimilarity == <<nfrags, raised, matches, seen, tables, workers,
    tree, settings, tasks, sem, results, loggers,
    row, records, payload, email_path, items>>

\* The caller extends the left string (the term) by one character.
AppendLeft(c) ==
    /\ pc = "compose"
    /\ Len(arg.chars) < MaxSimLen
    /\ arg' = StrArg(Append(arg.chars, c))
    /\ UNCHANGED <<pc, result, op, other, candidates, threshold>>
    /\ UNCHANGED notSimilarity

\* The caller extends the right string by one character.
AppendRight(c) ==
    /\ pc = "compose"
    /\ Len(other) < MaxSimLen
    /\ other' = Append(other, c)
    /\ UNCHANGED <<arg, pc, result, op, candidates, threshold>>
    /\ UNCHANGED notSimilarity

\* The caller takes one of the sample pairs.
ChoosePair(p) ==
    /\ pc = "compose"
    /\ arg.chars = <<>> /\ other = <<>>
    /\ arg' = StrArg(p[1])
    /\ other' = p[2]
    /\ pc' = "ready"
    /\ UNCHANGED <<result, op, candidates, threshold>>
    /\ UNCHANGED notSimilarity

\* result = score_similarity(arg, other)
Score ==
    /\ pc \in {"compose", "ready"}
    /\ op' = "score_similarity"
    /\ result' = score_similarity(arg.chars, other)
    /\ pc' = "done"
    /\ UNCHANGED <<arg, other, candidates, threshold>>
    /\ UNCHANGED notSimilarity

\* result = fuzzy_contains(arg, cs, th)
Contains(cs, th) ==
    /\ pc = "compose"
    /\ other = <<>>
    /\ op' = "fuzzy_contains"
    /\ candidates' = cs
    /\ threshold' = th
    /\ result' = fuzzy_contains(arg.chars, cs, th)
    /\ pc' = "done"
    /\ UNCHANGED <<arg, other>>
    /\ UNCHANGED notSimilarity

\* result = fuzzy_contains(arg, cs): the threshold is the default.
ContainsDefault(cs) ==
    /\ pc = "compose"
    /\ other = <<>>
    /\ op' = "fuzzy_contains_default"
    /\ candidates' = cs
    /\ threshold' = DefaultThreshold
    /\ result' = fuzzy_contains(arg.chars, cs, DefaultThreshold)
    /\ pc' = "done"
    /\ UNCHANGED <<arg, other>>
    /\ UNCHANGED notSimilarity

\* The caller goes on to its next call.
ReturnSimilarity ==
    /\ pc = "done"
    /\ arg' = StrArg(<<>>)
    /\ other' = <<>>
    /\ candidates' = <<>>
    /\ threshold' = 0
    /\ pc' = "compose"
    /\ result' = <<>>
    /\ op' = "none"
    /\ UNCHANGED notSimilarity

NextSimilarity ==
    \/ \E c \in {"a", "B", "c", " "} : AppendLeft(c)
    \/ \E c \in {"a", "B", "c", " "} : AppendRight(c)
    \/ \E p \in ({<<<<" ", "H", "V", "D", "C", " ">>, <<"h", "v", "d", "c">>>>,
              <<<<"a", "l", "p", "h", "a">>, <<"b", "e", "t", "a">>>>,
              <<<<"H", "i", "t", "a", "c", "h", "i", " ", "E", "n", "e", "r", "g", "y">>, <<"h", "i", "t", "a", "c", "h", "i", "NBSP", "e", "n", "e", "r", "g", "y", " ">>>>}) : ChoosePair(p)
    \/ Score
    \/ \E cs \in {<<>>, <<<<"a", "B", "c">>>>, <<<<"c">>, <<" ", "A", "B", " ">>>>, <<<<"c", "a">>, <<"h", "i", "t", "a", "c", "h", "i">>, <<"a", " ", "B", "c", " ", "a">>>>}, th \in {0, 5000, 8000, 10000} : Contains(cs, th)
    \/ \E cs \in {<<>>, <<<<"a", "B", "c">>>>, <<<<"c">>, <<" ", "A", "B", " ">>>>, <<<<"c", "a">>, <<"h", "i", "t", "a", "c", "h", "i">>, <<"a", " ", "B", "c", " ", "a">>>>} : ContainsDefault(cs)
    \/ ReturnSimilarity

SpecSimilarity == Init /\ [][NextSimilarity]_vars

----------------------------------------------------------------------------
(* Several workers call the functions side by side.  A call is a sequence  *)
(* of steps, one for each read of a module-level table, and the steps of    *)
(* the workers interleave freely.                                           *)

\* dict.get with setdefault for get: a missing key is stored with the default.
dict_get_SetDefault(table, key, default) ==
    [value |-> get(table, key, default),
     table |-> IF key \in DOMAIN table THEN table ELSE (key :> default) @@ table]

\* table.get(key, default): the value, and the table as the call leaves it.
dict_get(table, key, default) == [value |-> get(table, key, default), table |-> table]

\* The registry key a step of find_case_codes looks up.
RuleOf(step) ==
    CASE step = "adopt" -> "HVDC_ADOPT"
      [] step = "generic" -> "HVDC_GENERIC"
      [] step = "jptw_grm" -> "JPTW_GRM"
      [] step = "trailing" -> "TRAILING"

\* What the step adds to `matches`.
FoundBy(step, text) ==
    CASE step = "adopt" -> adopt(text)
      [] step = "generic" -> generic(text)
      [] step = "jptw_grm" -> jptw_grm(text)
      [] step = "trailing" -> trailing(text)

StepAfter(step) ==
    CASE step = "adopt" -> "generic"
      [] step = "generic" -> "jptw_grm"
      [] step = "jptw_grm" -> "trailing"
      [] step = "trailing" -> "return"

\* What a worker leaves alone.
notWorkers == <<arg, nfrags, pc, result, raised, matches, seen, op, other, candidates, threshold,
    tree, settings, tasks, sem, results, loggers,
    row, records, payload, email_path, items>>

\* Worker w starts a call.
Begin(w, call) ==
    /\ workers[w].pc = "idle"
    /\ workers' = [workers EXCEPT ![w] = [Idle EXCEPT !.op = call.op, !.a = call.a, !.b = call.b, !.pc = "normalize"]]
    /\ UNCHANGED tables
    /\ UNCHANGED notWorkers

\* normalize_subject of the first argument; find_case_codes makes its set.
Normalize(w) ==
    /\ workers[w].pc = "normalize"
    /\ workers' = [workers EXCEPT ![w].work = normalize_subject(StrArg(workers[w].a)).value,
                                  ![w].matches = NewSet,
                                  ![w].pc = CASE workers[w].op = "find_case_codes" -> "adopt"
                                              [] workers[w].op = "score_similarity" -> "ratio"
                                              [] OTHER -> "lookup"]
    /\ UNCHANGED tables
    /\ UNCHANGED notWorkers

\* COMPILED_PATTERNS[key].findall(work) and the update of `matches`; a
\* missing key ends the call with PatternMatchError.
ReadPattern(w) ==
    /\ workers[w].pc \in {"adopt", "generic", "jptw_grm", "trailing"}
    /\ workers' =
          IF RuleOf(workers[w].pc) \in tables.patterns
          THEN [workers EXCEPT ![w].matches = @ \cup Range(FoundBy(workers[w].pc, workers[w].work)),
                               ![w].pc = StepAfter(workers[w].pc)]
          ELSE [workers EXCEPT ![w].raised = "PatternMatchError", ![w].pc = "done"]
    /\ UNCHANGED tables
    /\ UNCHANGED notWorkers

\* return sorted(matches)
ReturnSorted(w) ==
    /\ workers[w].pc = "return"
    /\ workers' = [workers EXCEPT ![w].result = sorted(workers[w].matches), ![w].pc = "done"]
    /\ UNCHANGED tables
    /\ UNCHANGED notWorkers

\* VENDOR_ALIASES.get(key, alias.strip().title())
LookupVendor(w) ==
    /\ workers[w].pc = "lookup"
    /\ workers[w].op = "match_vendor_alias"
    /\ LET r == dict_get(tables.vendors, workers[w].work, title(strip(workers[w].a)))
       IN /\ workers' = [workers EXCEPT ![w].result = r.value, ![w].pc = "done"]
          /\ tables' = [tables EXCEPT !.vendors = r.table]
    /\ UNCHANGED notWorkers

\* SITE_ALIASES.get(key, alias.strip().upper())
LookupSite(w) ==
    /\ workers[w].pc = "lookup"
    /\ workers[w].op = "match_site_alias"
    /\ LET r == dict_get(tables.sites, workers[w].work, upper(strip(workers[w].a)))
       IN /\ workers' = [workers EXCEPT ![w].result = r.value, ![w].pc = "done"]
          /\ tables' = [tables EXCEPT !.sites = r.table]
    /\ UNCHANGED notWorkers

\* The ratio of the normalized left and the normalized right string.
Ratio(w) ==
    /\ workers[w].pc = "ratio"
    /\ workers' = [workers EXCEPT ![w].result = ratio(workers[w].work, normalize_subject(StrArg(workers[w].b)).value),
                                  ![w].pc = "done"]
    /\ UNCHANGED tables
    /\ UNCHANGED notWorkers

\* The call of worker w has returned; the worker is free again.
Finish(w) ==
    /\ workers[w].pc = "done"
    /\ workers' = [workers EXCEPT ![w] = Idle]
    /\ UNCHANGED tables
    /\ UNCHANGED notWorkers

NextWorkers ==
    \E w \in Workers :
        \/ \E call \in ({[op |-> "find_case_codes", a |-> t, b |-> <<>>] : t \in {<<"R", "e", ":", " ", "H", "V", "D", "C", "-", "A", "D", "O", "P", "T", "-", "H", "E", "-", "0", "4", "7", "6", " ", "/", " ", "J", "P", "T", "W", "-", "7", "1", " ", "/", " ", "G", "R", "M", "-", "1", "2", "3">>, <<"S", "u", "b", "j", "e", "c", "t", ":", " ", "H", "V", "D", "C", "-", "A", "G", "I", "-", "J", "P", "T", "W", "7", "1", "-", "G", "R", "M", "6", "5", "(", "7", "6", "0", "T", "N", ")">>}}
              \cup {[op |-> f, a |-> t, b |-> <<>>] :
              f \in {"match_vendor_alias", "match_site_alias"},
              t \in {<<" ", "H", "E", " ">>, <<"M", "i", "r", "f", "a">>, <<"x", " ", "y">>, <<"x", "NBSP", "y">>}}
              \cup {[op |-> "score_similarity", a |-> <<"a", "l", "p", "h", "a">>, b |-> <<"b", "e", "t", "a">>]}) : Begin(w, call)
        \/ Normalize(w)
        \/ ReadPattern(w)
        \/ ReturnSorted(w)
        \/ LookupVendor(w)
        \/ LookupSite(w)
        \/ Ratio(w)
        \/ Finish(w)

SpecWorkers == Init /\ [][NextWorkers]_vars

----------------------------------------------------------------------------
(* The legacy extractor extract_case_numbers_enhanced of the smoke tool.   *)

\* case_numbers.append(x) unless x is in case_numbers already
append_new(case_numbers, x) == IF x \in Range(case_numbers) THEN case_numbers ELSE Append(case_numbers, x)

RECURSIVE append_each_new(_, _)
append_each_new(case_numbers, xs) ==
    IF xs = <<>> THEN case_numbers
    ELSE append_each_new(append_new(case_numbers, Head(xs)), Tail(xs))

\* f"HVDC-ADOPT-{match[0]}-{match[1]}".upper() for each match of pattern1
legacy_adopt(subject) ==
    LET ms == finditer("LEGACY_ADOPT", subject, 1)
    IN [i \in DOMAIN ms |-> upper(LIT_HVDC_ADOPT \o ms[i].g1 \o <<"-">> \o ms[i].g2)]

\* f"HVDC-{match[0]}-{match[1]}-{match[2]}".upper() for each match of pattern2
legacy_generic(subject) ==
    LET ms == finditer("LEGACY_GENERIC", subject, 1)
    IN [i \in DOMAIN ms |-> upper(LIT_HVDC \o ms[i].g1 \o <<"-">> \o ms[i].g2)]

\* The inner rule applied with re.search: the first token of a group only.
inner_codes_FirstOnly(outer_match) ==
    LET ms == finditer("PAREN_INNER", outer_match, 1)
    IN [i \in DOMAIN ms \cap {1} |-> LIT_HVDC_ADOPT \o upper(ms[i].g1) \o <<"-">> \o ms[i].g2]

\* f"HVDC-ADOPT-{match[0].upper()}-{match[1]}" for each match of
\* pattern3_inner in the text of one parenthesised group
inner_codes(outer_match) ==
    LET ms == finditer("PAREN_INNER", outer_match, 1)
    IN [i \in DOMAIN ms |-> LIT_HVDC_ADOPT \o upper(ms[i].g1) \o <<"-">> \o ms[i].g2]

RECURSIVE paren_codes(_)
\* The inner codes of the groups pattern3_outer finds, group after group.
paren_codes(outer_matches) ==
    IF outer_matches = <<>> THEN <<>>
    ELSE inner_codes(Head(outer_matches).g1) \o paren_codes(Tail(outer_matches))

extract_case_numbers_enhanced(subject) ==
    LET after1 == legacy_adopt(subject)
        after2 == append_each_new(after1, legacy_generic(subject))
    IN append_each_new(after2, paren_codes(finditer("PAREN_ANY", subject, 1)))

\* Largest number of fragments a composed legacy subject is built from.
MaxLegacyFrags == 4

\* What a caller of the legacy extractor leaves alone.
notLegacy == <<raised, matches, seen, other, candidates, threshold, tables, workers,
    tree, settings, tasks, sem, results, loggers,
    row, records, payload, email_path, items>>

\* The caller extends the subject by one fragment.
AppendLegacyFragment(f) ==
    /\ pc = "compose"
    /\ nfrags < MaxLegacyFrags
    /\ arg' = StrArg(arg.chars \o f)
    /\ nfrags' = nfrags + 1
    /\ UNCHANGED <<pc, result, op>>
    /\ UNCHANGED notLegacy

\* The caller takes one of the subjects of test_patterns.
ChooseSubject(t) ==
    /\ pc = "compose"
    /\ nfrags = 0
    /\ arg' = StrArg(t)
    /\ pc' = "ready"
    /\ UNCHANGED <<nfrags, result, op>>
    /\ UNCHANGED notLegacy

\* result = extract_case_numbers_enhanced(arg)
Extract ==
    /\ pc \in {"compose", "ready"}
    /\ op' = "extract_case_numbers_enhanced"
    /\ result' = extract_case_numbers_enhanced(arg.chars)
    /\ pc' = "done"
    /\ UNCHANGED <<arg, nfrags>>
    /\ UNCHANGED notLegacy

\* The caller goes on to its next subject.
ReturnLegacy ==
    /\ pc = "done"
    /\ arg' = StrArg(<<>>)
    /\ nfrags' = 0
    /\ pc' = "compose"
    /\ result' = <<>>
    /\ op' = "none"
    /\ UNCHANGED notLegacy

NextLegacy ==
    \/ \E f \in ({<<"(">>,
              <<")">>,
              <<"h", "e", "-", "0", "4", "2">>,
              <<",", " ">>,
              <<"U", "R", "G", "E", "N", "T">>,
              <<"H", "V", "D", "C", "-", "a", "g", "i", "-", "S", "C", "T", "-", "0", "1", "3", "4">>,
              <<"-", "7", "a">>}) : AppendLegacyFragment(f)
    \/ \E t \in ({<<"(", "U", "R", "G", "E", "N", "T", ")", " ", "P", "R", "L", "-", "D", "-", "0", "1", "1", "-", "T", "-", "(", "H", "E", "-", "0", "4", "9", "9", "-", "3", ")", " ", "/", "/", " ", "D", "e", "l", "i", "v", "e", "r", "y">>,
              <<"P", "R", "L", "-", "M", "I", "R", "-", "0", "4", "8", "-", "O", "1", ",", " ", "-", "O", "2", " ", "(", "H", "E", "-", "0", "4", "2", "7", ",", " ", "H", "E", "-", "0", "4", "2", "8", ")", " ", "4", "0", "0", "k", "V">>,
              <<"[", "H", "V", "D", "C", "-", "A", "D", "O", "P", "T", "-", "S", "I", "M", "-", "0", "0", "8", "8", "]", " ", "M", "a", "t", "e", "r", "i", "a", "l", " ", "D", "e", "l", "i", "v", "e", "r", "y">>,
              <<"H", "V", "D", "C", "-", "A", "G", "I", "-", "S", "C", "T", "-", "0", "1", "3", "4", " ", "P", "r", "o", "j", "e", "c", "t", " ", "U", "p", "d", "a", "t", "e">>,
              <<"[", "H", "V", "D", "C", "-", "D", "A", "S", "]", " ", "E", "q", "u", "i", "p", "m", "e", "n", "t", "_", "S", "C", "T", "-", "1", "9", "L", "T", "-", "P", "J", "C", "-", "L", "P", "O", "-", "1", "4", "8", "7", "_", "5">>,
              <<"(", "H", "E", "-", "0", "4", "2", "7", ",", " ", "H", "E", "-", "0", "4", "2", "8", ")">>,
              <<"H", "V", "D", "C", "-", "A", "D", "O", "P", "T", "-", "H", "E", "-", "0", "4", "2", "7", " ", "/", " ", "h", "v", "d", "c", "-", "a", "d", "o", "p", "t", "-", "h", "e", "-", "0", "4", "2", "7">>,
              <<"H", "V", "D", "C", "-", "A", "D", "O", "P", "T", "-", "H", "E", "-", "0", "4", "2", "7", "-", "A", " ", "(", "h", "e", "-", "0", "4", "2", "7", "-", "a", ")">>,
              <<"P", "R", "L", "-", "O", "-", "0", "4", "6", "-", "O", "4", "(", "H", "E", "-", "0", "4", "8", "6", ")", " ", "-", " ", "s", "t", "a", "t", "u", "s">>}) : ChooseSubject(t)
    \/ Extract
    \/ ReturnLegacy

SpecLegacy == Init /\ [][NextLegacy]_vars

----------------------------------------------------------------------------
(* The walk over a directory tree: a caller puts entries into the tree,    *)
(* picks the settings and lists the files iter_email_files yields.         *)

\* Largest number of entries of a tree.
MaxTree == 3

\* An upper-case email file, a text file that does not parse, an Outlook
\* file, a directory named like an email file and a file of another kind.
Entries ==
    {[suffix |-> <<".", "E", "M", "L">>, is_file |-> TRUE, parses |-> TRUE],
     [suffix |-> <<".", "t", "x", "t">>, is_file |-> TRUE, parses |-> FALSE],
     [suffix |-> <<".", "M", "S", "G">>, is_file |-> TRUE, parses |-> TRUE],
     [suffix |-> <<".", "e", "m", "l">>, is_file |-> FALSE, parses |-> FALSE],
     [suffix |-> <<".", "d", "o", "c">>, is_file |-> TRUE, parses |-> TRUE]}

notFiles == <<arg, nfrags, raised, matches, seen, other, candidates, threshold, tables, workers, loggers,
    row, records, payload, email_path, items>>

\* One more entry under the root.
AddEntry(e) ==
    /\ pc = "compose"
    /\ Len(tree) < MaxTree
    /\ tree' = Append(tree, e)
    /\ UNCHANGED <<pc, result, op, settings, tasks, sem, results>>
    /\ UNCHANGED notFiles

\* The caller builds the settings.
ChooseSettings(s) ==
    /\ pc = "compose"
    /\ settings' = s
    /\ pc' = "ready"
    /\ UNCHANGED <<result, op, tree, tasks, sem, results>>
    /\ UNCHANGED notFiles

\* result = list(iter_email_files(root, settings))
ListFiles ==
    /\ pc \in {"compose", "ready"}
    /\ result' = iter_email_files(tree, settings)
    /\ op' = "iter_email_files"
    /\ pc' = "done"
    /\ UNCHANGED <<tree, settings, tasks, sem, results>>
    /\ UNCHANGED notFiles

NextIter ==
    \/ \E e \in Entries : AddEntry(e)
    \/ \E a \in {DEFAULT_ALLOWED_EXT, <<<<".", "e", "m", "l">>, <<".", "T", "X", "T">>, <<".", "m", "s", "g">>>>},
          o \in {DEFAULT_OUTLOOK_EXT, <<<<".", "P", "S", "T">>>>},
          m \in {NoneArg, IntArg(0), IntArg(1), IntArg(2)} :
          ChooseSettings([HVDCSettings EXCEPT !.allowed_extensions = a,
                                              !.outlook_extensions = o,
                                              !.max_files = m])
    \/ ListFiles

SpecIter == Init /\ [][NextIter]_vars

----------------------------------------------------------------------------
(* gather_metadata: one task for each file of the walk; a task enters the   *)
(* semaphore, has parse_email_file run in a thread, and when the thread is  *)
(* done takes its outcome, appends the record and leaves the semaphore.     *)
(* The steps of the event loop and the threads interleave freely.           *)

\* parse_email_file(path, settings): the EmailMetadata of the file, or
\* EmailParsingError for whatever goes wrong.
parse_email_file(path, root) ==
    IF root[path].parses
    THEN [raised |-> "none", value |-> [path |-> path]]
    ELSE [raised |-> "EmailParsingError", value |-> NoneArg]

\* _parse_email, given how the call in the thread ended.
_parse_email_KeepFailed(outcome, path) == [path |-> path]

_parse_email(outcome, path) ==
    IF outcome.raised = "EmailParsingError" THEN NoneArg ELSE outcome.value

\* Semaphore.locked()
locked_Never(value) == FALSE

locked(value) == value = 0

\* asyncio.create_task(worker(item)) for the items of the batches, in order.
RECURSIVE create_tasks(_)
create_tasks(batches) ==
    IF batches = <<>> THEN <<>>
    ELSE [k \in DOMAIN Head(batches) |->
             [target |-> Head(batches)[k], pc |-> "created", outcome |-> NoneArg]]
         \o create_tasks(Tail(batches))

\* gather_metadata up to its await: the semaphore, the result list and the
\* tasks.
StartGather ==
    /\ pc \in {"compose", "ready"}
    /\ sem' = settings.async_batch_size
    /\ results' = <<>>
    /\ tasks' = create_tasks(chunked(iter_email_files(tree, settings), settings.async_batch_size))
    /\ op' = "gather_metadata"
    /\ pc' = "gathering"
    /\ UNCHANGED <<result, tree, settings>>
    /\ UNCHANGED notFiles

\* Task t enters `async with sem` and hands parse_email_file to a thread.
Acquire(t) ==
    /\ pc = "gathering"
    /\ t \in DOMAIN tasks
    /\ tasks[t].pc = "created"
    /\ ~locked(sem)
    /\ sem' = sem - 1
    /\ tasks' = [tasks EXCEPT ![t].pc = "parsing"]
    /\ UNCHANGED <<pc, result, op, tree, settings, results>>
    /\ UNCHANGED notFiles

\* The thread of task t comes to the end of parse_email_file.
ParseDone(t) ==
    /\ pc = "gathering"
    /\ t \in DOMAIN tasks
    /\ tasks[t].pc = "parsing"
    /\ tasks' = [tasks EXCEPT ![t].pc = "parsed",
                              ![t].outcome = parse_email_file(tasks[t].target, tree)]
    /\ UNCHANGED <<pc, result, op, tree, settings, sem, results>>
    /\ UNCHANGED notFiles

\* Task t goes on after its await: it keeps the record, if there is one,
\* and leaves the semaphore.
Resume(t) ==
    /\ pc = "gathering"
    /\ t \in DOMAIN tasks
    /\ tasks[t].pc = "parsed"
    /\ LET record == _parse_email(tasks[t].outcome, tasks[t].target)
       IN results' = IF record # NoneArg THEN Append(results, record) ELSE results
    /\ sem' = sem + 1
    /\ tasks' = [tasks EXCEPT ![t].pc = "done"]
    /\ UNCHANGED <<pc, result, op, tree, settings>>
    /\ UNCHANGED notFiles

\* asyncio.gather is done, or there was no task: gather_metadata returns.
ReturnGather ==
    /\ pc = "gathering"
    /\ \A t \in DOMAIN tasks : tasks[t].pc = "done"
    /\ result' = results
    /\ pc' = "returned"
    /\ UNCHANGED <<op, tree, settings, tasks, sem, results>>
    /\ UNCHANGED notFiles

NextGather ==
    \/ \E e \in Entries : AddEntry(e)
    \/ \E m \in {NoneArg, IntArg(2)}, b \in {0, 1, 2, 32} :
          ChooseSettings([HVDCSettings EXCEPT !.max_files = m, !.async_batch_size = b])
    \/ StartGather
    \/ \E t \in DOMAIN tasks : Acquire(t)
    \/ \E t \in DOMAIN tasks : ParseDone(t)
    \/ \E t \in DOMAIN tasks : Resume(t)
    \/ ReturnGather

SpecGather == Init /\ [][NextGather]_vars

\* The event loop runs every task that can go on and every thread comes to
\* its end.
SpecGatherFair ==
    /\ SpecGather
    /\ WF_vars(StartGather)
    /\ \A t \in 1..MaxTree : WF_vars(Acquire(t)) /\ WF_vars(ParseDone(t)) /\ WF_vars(Resume(t))
    /\ WF_vars(ReturnGather)

----------------------------------------------------------------------------
(* The cargo tracker.  A row is a pandas Series: a function from the       *)
(* labels it has to values.  A value is "NaT" (null) or a timestamp, which *)
(* is tz-naive or tz-aware and lies in the past or in the future.  The     *)
(* outcome "TypeError" of determine_status is the exception it raises.     *)

SITE_COLUMNS == <<"SHU", "MIR", "DAS", "AGI">>

WAREHOUSE_COLUMNS ==
    <<"DSV\nIndoor", "DSV\nOutdoor", "DSV\nMZD", "JDN\nMZD", "JDN\nWaterfront", "MOSB",
      "AAA Storage", "ZENER (WH)", "Hauler DG Storage", "Vijay Tanks">>

\* pd.notna(value); None is what row.get gives for a label the row lacks.
notna(value) == value \notin {"NaT", "None"}

\* eta < now, for a timestamp eta: pandas refuses to compare a tz-naive
\* with a tz-aware timestamp.
less_than_now(eta, now_is_aware) ==
    IF (eta \in {"aware past", "aware future"}) # now_is_aware THEN "TypeError"
    ELSE IF eta \in {"naive past", "aware past"} THEN "True"
    ELSE "False"

\* The rules both versions of determine_status go through, given the
\* outcome of the comparison of ETA with now (which is made only when the
\* fifth rule is reached and ETA is not null).
status_rules(r, eta_before_now) ==
    IF \E site \in Range(SITE_COLUMNS) : notna(get(r, site, "None")) THEN "SITE_DELIVERED"
    ELSE IF \E warehouse \in Range(WAREHOUSE_COLUMNS) : notna(get(r, warehouse, "None")) THEN "WAREHOUSE"
    ELSE IF notna(get(r, "Customs\nStart", "None")) /\ ~notna(get(r, "Customs\nClose", "None")) THEN "CUSTOMS"
    ELSE IF notna(get(r, "ATA ", "None")) THEN "PORT_ARRIVAL"
    ELSE IF notna(get(r, "ATD", "None")) \/ notna(get(r, "ETD", "None"))
         THEN IF ~notna(get(r, "ETA", "None")) THEN "IN_TRANSIT"
              ELSE IF eta_before_now = "TypeError" THEN "TypeError"
              ELSE IF eta_before_now = "True" /\ ~notna(get(r, "ATA ", "None")) THEN "DELAYED"
              ELSE "IN_TRANSIT"
    ELSE "NOT_SHIPPED"

\* determine_status(row): ETA is compared with pd.Timestamp.utcnow(), which
\* is tz-aware.
determine_status(r) == status_rules(r, less_than_now(get(r, "ETA", "None"), TRUE))

\* HVDCCargoTracker.determine_status(row): ETA is compared with
\* pd.Timestamp.now(), which is tz-naive.
HVDCCargoTracker_determine_status(r) ==
    status_rules(r, less_than_now(get(r, "ETA", "None"), FALSE))

\* The lookup of attach_email_context: for every case of the entries the
\* last entry with it; an entry without a case is kept under None.
lookup_FirstWins(emails) ==
    [case \in {get(emails[k], "case", "None") : k \in DOMAIN emails} |->
        emails[CHOOSE k \in DOMAIN emails :
                  /\ get(emails[k], "case", "None") = case
                  /\ \A j \in DOMAIN emails : get(emails[j], "case", "None") = case => j >= k]]

lookup(emails) ==
    [case \in {get(emails[k], "case", "None") : k \in DOMAIN emails} |->
        emails[CHOOSE k \in DOMAIN emails :
                  /\ get(emails[k], "case", "None") = case
                  /\ \A j \in DOMAIN emails : get(emails[j], "case", "None") = case => j <= k]]

\* attach_email_context(records, email_path), with the JSON document the
\* file holds if it exists: the records as the call leaves them.  A context
\* is used when it is there and not the empty dict.
attach_email_context(recs, path, document) ==
    IF path \in {"None", "missing"} THEN recs
    ELSE [i \in DOMAIN recs |->
            IF /\ recs[i].case \in DOMAIN lookup(get(document, "emails", <<>>))
               /\ DOMAIN lookup(get(document, "emails", <<>>))[recs[i].case] # {}
            THEN [recs[i] EXCEPT !.vendor =
                     get(lookup(get(document, "emails", <<>>))[recs[i].case], "vendor", recs[i].vendor)]
            ELSE recs[i]]

\* Largest number of labels of a row, of records and of entries of the
\* email payload.
MaxColumns == 4

MaxRecords == 2

MaxEmails == 2

\* What the callers of the cargo tracker and of the summary leave alone.
notReports == <<nfrags, raised, matches, seen, other, candidates, threshold, tables, workers,
    tree, settings, tasks, sem, results, loggers>>

\* The row gets one more label, with a null or a timestamp under it.
SetColumn(column, value) ==
    /\ pc = "compose"
    /\ records = <<>> /\ DOMAIN payload = {} /\ email_path = "None"
    /\ column \notin DOMAIN row
    /\ Cardinality(DOMAIN row) < MaxColumns
    /\ column # "ETA" => value \in {"NaT", "naive past"}
    /\ row' = [c \in DOMAIN row \cup {column} |-> IF c = column THEN value ELSE row[c]]
    /\ UNCHANGED <<arg, pc, result, op, records, payload, email_path, items>>
    /\ UNCHANGED notReports

\* Both versions of determine_status are called with the row.
Determine ==
    /\ pc = "compose"
    /\ records = <<>> /\ DOMAIN payload = {} /\ email_path = "None"
    /\ result' = [refactored |-> determine_status(row),
                  legacy |-> HVDCCargoTracker_determine_status(row)]
    /\ op' = "determine_status"
    /\ pc' = "done"
    /\ UNCHANGED <<arg, row, records, payload, email_path, items>>
    /\ UNCHANGED notReports

\* One more cargo record.
AddRecord(case, vendor) ==
    /\ pc = "compose"
    /\ DOMAIN row = {}
    /\ Len(records) < MaxRecords
    /\ records' = Append(records, [case |-> case, status |-> "SITE_DELIVERED", vendor |-> vendor,
                                   eta |-> "None", ata |-> "None"])
    /\ UNCHANGED <<arg, pc, result, op, row, payload, email_path, items>>
    /\ UNCHANGED notReports

\* One more entry in the "emails" list of the JSON document.
AddEmail(entry) ==
    /\ pc = "compose"
    /\ DOMAIN row = {}
    /\ Len(get(payload, "emails", <<>>)) < MaxEmails
    /\ payload' = [key \in {"emails"} |-> Append(get(payload, "emails", <<>>), entry)]
    /\ UNCHANGED <<arg, pc, result, op, row, records, email_path, items>>
    /\ UNCHANGED notReports

\* The caller names no file, a file that is not there, or the file with
\* the document.
ChoosePath(path) ==
    /\ pc = "compose"
    /\ DOMAIN row = {}
    /\ email_path = "None"
    /\ email_path' = path
    /\ pc' = "ready"
    /\ UNCHANGED <<arg, result, op, row, records, payload, items>>
    /\ UNCHANGED notReports

\* attach_email_context(records, email_path); `arg` keeps the records as
\* they were before the call.
Attach ==
    /\ pc = "ready"
    /\ op = "none"
    /\ arg' = records
    /\ records' = attach_email_context(records, email_path, payload)
    /\ op' = "attach_email_context"
    /\ pc' = "done"
    /\ UNCHANGED <<result, row, payload, email_path, items>>
    /\ UNCHANGED notReports

NextCargo ==
    \/ \E column \in {"SHU", "AGI", "MOSB", "Vijay Tanks", "Customs\nStart", "Customs\nClose",
                      "ATA ", "ATD", "ETD", "ETA"},
          value \in {"NaT", "naive past", "naive future", "aware past", "aware future"} :
          SetColumn(column, value)
    \/ Determine
    \/ \E case \in {"A", "B"}, vendor \in {"None", "Old Vendor"} : AddRecord(case, vendor)
    \/ \E entry \in {[case |-> "A", vendor |-> "Samsung C&T"],
                     [case |-> "A", vendor |-> "None"],
                     [case |-> "A"],
                     [case |-> "B", vendor |-> "Hitachi Energy"],
                     [vendor |-> "Nobody"],
                     [key \in {} |-> "None"]} : AddEmail(entry)
    \/ \E path \in {"None", "missing", "exists"} : ChoosePath(path)
    \/ Attach

SpecCargo == Init /\ [][NextCargo]_vars

----------------------------------------------------------------------------
(* build_summary.  A Counter is the sequence of its <<key, count>> pairs in *)
(* the order the keys came in.                                              *)

\* s.split(sep), for a separator of one character.
RECURSIVE split(_, _)
split(s, sep) ==
    IF sep \notin Range(s) THEN <<s>>
    ELSE LET k == CHOOSE k \in DOMAIN s : s[k] = sep /\ \A j \in 1..(k - 1) : s[j] # sep
         IN <<SubSeq(s, 1, k - 1)>> \o split(SubSeq(s, k + 1, Len(s)), sep)

\* counter[key] += 1 for the keys, in order.
RECURSIVE count_all(_, _)
count_all(counter, keys) ==
    IF keys = <<>> THEN counter
    ELSE count_all(IF \E i \in DOMAIN counter : counter[i][1] = Head(keys)
                   THEN [i \in DOMAIN counter |->
                            IF counter[i][1] = Head(keys)
                            THEN <<counter[i][1], counter[i][2] + 1>>
                            ELSE counter[i]]
                   ELSE Append(counter, <<Head(keys), 1>>),
                   Tail(keys))

\* Counter.most_common(): by falling count, keys of equal count in the
\* order they came in.
RECURSIVE most_common(_)
most_common(counter) ==
    IF counter = <<>> THEN <<>>
    ELSE LET k == CHOOSE k \in DOMAIN counter :
                     \A j \in DOMAIN counter :
                         \/ counter[j][2] < counter[k][2]
                         \/ counter[j][2] = counter[k][2] /\ j >= k
         IN <<counter[k]>> \o
            most_common([i \in 1..(Len(counter) - 1) |-> IF i < k THEN counter[i] ELSE counter[i + 1]])

\* The keys the loop of build_summary counts in one of its three counters,
\* in order: the codes of each item's subject and first 200 body
\* characters, the vendor of each code, the site of each recipient.
RECURSIVE counted_keys(_, _)
counted_keys(emails, counter) ==
    IF emails = <<>> THEN <<>>
    ELSE (CASE counter = "cases" ->
                 find_case_codes(StrArg(Head(emails).subject \o <<" ">> \o
                     SubSeq(Head(emails).body, 1, Min(200, Len(Head(emails).body))))).value
            [] counter = "vendors" ->
                 [k \in DOMAIN counted_keys(<<Head(emails)>>, "cases") |->
                     match_vendor_alias(split(counted_keys(<<Head(emails)>>, "cases")[k], "-")[2])]
            [] counter = "sites" ->
                 [k \in DOMAIN Head(emails).recipients |->
                     match_site_alias(split(Head(emails).recipients[k], "@")[1])])
         \o counted_keys(Tail(emails), counter)

\* build_summary(items)
build_summary(emails) ==
    [total_emails |-> Len(emails),
     cases |-> most_common(count_all(<<>>, counted_keys(emails, "cases"))),
     vendors |-> most_common(count_all(<<>>, counted_keys(emails, "vendors"))),
     sites |-> most_common(count_all(<<>>, counted_keys(emails, "sites")))]

\* Largest number of emails summarized.
MaxItems == 2

\* One more email: its subject, body and recipients.
AddItem(subject, body, recipients) ==
    /\ pc = "compose"
    /\ Len(items) < MaxItems
    /\ items' = Append(items, [subject |-> subject, body |-> body, recipients |-> recipients])
    /\ UNCHANGED <<arg, pc, result, op, row, records, payload, email_path>>
    /\ UNCHANGED notReports

\* result = build_summary(items)
Summarize ==
    /\ pc = "compose"
    /\ result' = build_summary(items)
    /\ op' = "build_summary"
    /\ pc' = "done"
    /\ UNCHANGED <<arg, row, records, payload, email_path, items>>
    /\ UNCHANGED notReports

NextSummary ==
    \/ \E subject \in {<<"H", "V", "D", "C", "-", "A", "D", "O", "P", "T", "-", "H", "E", "-", "0", "4", "7", "6", " ", "u", "p", "d", "a", "t", "e">>,
                       <<"[", "H", "V", "D", "C", "-", "A", "G", "I", "]", " ", "J", "P", "T", "W", "-", "7", "1", " ", "/", " ", "G", "R", "M", "-", "1", "2", "3">>,
                       <<"R", "e", ":", " ", "s", "t", "a", "t", "u", "s">>},
          body \in {<<"P", "r", "o", "g", "r", "e", "s", "s", " ", "f", "o", "r", " ", "H", "V", "D", "C", "-", "A", "D", "O", "P", "T", "-", "H", "E", "-", "0", "4", "7", "6">>,
                    <<"h", "v", "d", "c", "-", "a", "d", "o", "p", "t", "-", "s", "c", "t", "-", "0", "1", "3", "6", ",", " ", "H", "E", "-", "0", "4", "7", "6">>,
                    <<>>},
          recipients \in {<<<<"d", "a", "s", "@", "e", "x", "a", "m", "p", "l", "e", ".", "c", "o", "m">>>>,
                          <<<<"M", "i", "r", "f", "a", "@", "x", ".", "i", "o">>, <<"d", "a", "s", "@", "x", ".", "i", "o">>>>,
                          <<>>} :
          AddItem(subject, body, recipients)
    \/ Summarize

SpecSummary == Init /\ [][NextSummary]_vars

(***************************************************************************)
(* configure_logger (src/hvdc/logging.py).  loggers is the logging         *)
(* module's registry: logger name -> handlers, level and propagate flag.   *)
(* Importing hvdc.logging imports config.settings, whose module-level      *)
(* logging.basicConfig call gives the root logger a FileHandler and a      *)
(* StreamHandler at level INFO; that is the registry of Init.  A handler   *)
(* is a record of its class, its file, its rotation limits and the class   *)
(* of its formatter.  results keeps the calls made so far, each with its   *)
(* name, its settings and what it raised.                                  *)
(***************************************************************************)

MaxCalls == 3

\* if logger.handlers:
has_handlers_Never(logger) == FALSE

has_handlers(logger) == logger.handlers # <<>>

\* writable is the file system's answer to ensure_directory and to the
\* opening of the log file by RotatingFileHandler: either raises OSError
\* after the level was set.  logging.getLogger returns the root logger for
\* the names "" and "root", and a new logger (no handlers, level NOTSET,
\* propagate True) for a name it has not seen.
configure_logger(registry, name, s, writable) ==
    LET key == IF name \in {"", "root"} THEN "root" ELSE name
        logger == IF key \in DOMAIN registry THEN registry[key]
                  ELSE [handlers |-> <<>>, level |-> "NOTSET", propagate |-> TRUE]
        put(l) == [k \in DOMAIN registry \cup {key} |-> IF k = key THEN l ELSE registry[k]]
        formatter == IF s.log_json THEN "JsonFormatter" ELSE "Formatter"
        handler == [kind |-> "RotatingFileHandler",
                    file |-> <<s.log_directory, name, ".log">>,
                    maxBytes |-> s.log_rotation_mb * 1024 * 1024,
                    backupCount |-> s.log_retention,
                    formatter |-> formatter]
        stream_handler == [kind |-> "StreamHandler", file |-> <<>>,
                           maxBytes |-> 0, backupCount |-> 0, formatter |-> formatter]
    IN IF has_handlers(logger)
       THEN [raised |-> "none", loggers |-> put(logger)]
       ELSE IF ~writable
       THEN [raised |-> "OSError", loggers |-> put([logger EXCEPT !.level = "INFO"])]
       ELSE [raised |-> "none",
             loggers |-> put([handlers |-> Append(Append(logger.handlers, handler), stream_handler),
                              level |-> "INFO",
                              propagate |-> FALSE])]

Configure(name, s, writable) ==
    /\ Len(results) < MaxCalls
    /\ LET call == configure_logger(loggers, name, s, writable)
       IN /\ loggers' = call.loggers
          /\ raised' = call.raised
          /\ results' = Append(results, [name |-> name, settings |-> s, raised |-> call.raised])
    /\ op' = "configure_logger"
    /\ UNCHANGED <<arg, nfrags, pc, result, matches, seen, other, candidates, threshold, tables,
                   workers, tree, settings, tasks, sem, row, records, payload, email_path, items>>

NextLogger ==
    \E name \in {"test", "comprehensive_email_mapper", "root", ""}, json \in BOOLEAN,
       limits \in {<<5, 5>>, <<1, 0>>}, writable \in BOOLEAN :
        Configure(name,
                  [HVDCSettings EXCEPT !.log_json = json, !.log_rotation_mb = limits[1],
                                       !.log_retention = limits[2]],
                  writable)

SpecLogger == Init /\ [][NextLogger]_vars

----------------------------------------------------------------------------
(* Properties of find_case_codes.                                          *)

\* The normalized text find_case_codes works on.
work == normalize_subject(arg).value

Returned == pc = "done" /\ raised = "none"

\* C1: the list returned by find_case_codes never holds two entries that are
\* equal when compared case-insensitively, however often a code occurs in
\* the text and however many rules produce it.
C1_NoDuplicates ==
    pc = "done" =>
        \A i, j \in DOMAIN result : i # j => lower(result[i]) # lower(result[j])

\* A call returned for a text in which one HVDC-ADOPT code stands twice, in
\* different letter case (so it is also produced by two rules).
C1_Witness ==
    /\ Returned /\ result # <<>> /\ arg.type = "str"
    /\ LET ms == finditer("HVDC_ADOPT", arg.chars, 1)
       IN \E i, j \in DOMAIN ms :
            /\ i < j
            /\ group0(arg.chars, ms[i]) # group0(arg.chars, ms[j])
            /\ upper(group0(arg.chars, ms[i])) = upper(group0(arg.chars, ms[j]))

RECURSIVE FirstSeen(_)
\* Order-preserving removal of duplicates: the first occurrence stays.
FirstSeen(xs) ==
    IF xs = <<>> THEN <<>>
    ELSE LET rest == FirstSeen(SubSeq(xs, 1, Len(xs) - 1))
             x == xs[Len(xs)]
         IN IF x \in Range(rest) THEN rest ELSE rest \o <<x>>

\* C2: the returned list is in first-seen extraction order: by rule, then by
\* position in the text, duplicates removed without reordering.
C2_FirstSeenOrder == Returned => result = FirstSeen(collected(work))

\* C3: for a string or None the call returns a list and raises nothing; for
\* the empty string and for None the list is empty.
C3_StringsNeverRaise ==
    pc = "done" /\ arg.type \in {"str", "NoneType"} =>
        /\ raised = "none"
        /\ (arg.type = "NoneType" \/ arg.chars = <<>>) => result = <<>>

\* find_case_codes(None) returned the empty list.
C3_Witness == pc = "done" /\ arg.type = "NoneType" /\ raised = "none" /\ result = <<>>

\* C4: a value that is not a string is treated as empty text: the call
\* returns [] and no exception reaches the caller.
C4_NonStringIsEmptyText ==
    pc = "done" /\ arg.type \notin {"str", "NoneType"} =>
        raised = "none" /\ result = <<>>

\* The upper-cased texts of the matches of a rule in s.
RuleMatchesUpper(name, s) ==
    LET ms == finditer(name, s, 1)
    IN {upper(group0(s, ms[i])) : i \in DOMAIN ms}

\* C5: every match of the HVDC_ADOPT rule and of the HVDC_GENERIC rule in the
\* text as given is in the result, in upper case.
C5_AdoptAndGenericUpper ==
    pc = "done" /\ arg.type = "str" =>
        /\ raised = "none"
        /\ RuleMatchesUpper("HVDC_ADOPT", arg.chars) \subseteq Range(result)
        /\ RuleMatchesUpper("HVDC_GENERIC", arg.chars) \subseteq Range(result)

\* A call returned for a text with two HVDC_GENERIC matches, one of them
\* written with lower-case letters.
C5_Witness ==
    /\ Returned /\ arg.type = "str"
    /\ LET ms == finditer("HVDC_GENERIC", arg.chars, 1)
       IN /\ Len(ms) >= 2
          /\ \E i \in DOMAIN ms : group0(arg.chars, ms[i]) # upper(group0(arg.chars, ms[i]))
          /\ \E i, j \in DOMAIN ms : upper(group0(arg.chars, ms[i])) # upper(group0(arg.chars, ms[j]))

\* The code e stands in s at position i (ignoring case) and ends there: what
\* follows is neither a further digit nor a hyphenated sub-number.
CompleteAt(s, i, e) ==
    /\ LitAt(s, i, e)
    /\ LET q == i + Len(e)
       IN /\ ~(q <= Len(s) /\ s[q] \in Digits)
          /\ ~(CharAt(s, q, "-") /\ q + 1 <= Len(s) /\ s[q + 1] \in Alnum)

\* C6: every entry that starts with HVDC-ADOPT- carries the complete case
\* number as written in the text, whatever its length.
C6_AdoptNumberComplete ==
    pc = "done" /\ arg.type = "str" =>
        \A k \in DOMAIN result :
            LitAt(result[k], 1, LIT_HVDC_ADOPT) =>
                \E i \in DOMAIN arg.chars : CompleteAt(arg.chars, i, result[k])

\* The codes HVDC-ADOPT-<VENDOR>-<NUMBER> of the <VENDOR>-<NUMBER> tokens of
\* one parenthesised group with interior g.
GroupExpansions(g) ==
    LET ts == finditer("PAREN_INNER", g, 1)
    IN {LIT_HVDC_ADOPT \o upper(ts[k].g1) \o <<"-">> \o upper(ts[k].g2) : k \in DOMAIN ts}

\* The expansions of all parenthesised groups of s.
ParenExpansions(s) ==
    LET ps == finditer("PAREN_ANY", s, 1)
    IN UNION {GroupExpansions(ps[k].g1) : k \in DOMAIN ps}

\* C7: for each <VENDOR>-<NUMBER> token of a parenthesised group the result
\* of find_case_codes has the entry HVDC-ADOPT-<VENDOR>-<NUMBER>.
C7_ParenTokensExpanded ==
    pc = "done" /\ arg.type = "str" => ParenExpansions(arg.chars) \subseteq Range(result)

PrlToken == <<"P", "R", "L", "-", "O", "-", "0", "4", "6", "-", "O", "4", "(", "H", "E", "-", "0", "4", "8", "6", ")">>

PrlExpanded == <<"H", "V", "D", "C", "-", "A", "D", "O", "P", "T", "-", "H", "E", "-", "0", "4", "8", "6">>

\* C8: the registry has a rule PRL, and for a text with the PRL reference
\* PRL-O-046-O4(HE-0486) the result holds the PRL token with its
\* parenthetical and the expanded code HVDC-ADOPT-HE-0486.
C8_PrlRule ==
    pc = "done" /\ arg.type = "str" /\ (\E i \in DOMAIN arg.chars : LitAt(arg.chars, i, PrlToken)) =>
        /\ "PRL" \in COMPILED_PATTERNS
        /\ PrlToken \in Range(result)
        /\ PrlExpanded \in Range(result)

\* C9: for every JPTW-<n> / GRM-<m> pair of the text, with or without
\* whitespace around the slash, the result has JPTW-<n>/GRM-<m> with the
\* digits as written.
C9_JptwGrmPair ==
    pc = "done" /\ arg.type = "str" =>
        /\ raised = "none"
        /\ LET ms == finditer("JPTW_GRM", arg.chars, 1)
           IN \A k \in DOMAIN ms : F_JPTW \o ms[k].g1 \o F_GRM \o ms[k].g2 \in Range(result)

\* A call returned for a text with a pair that has whitespace next to the
\* slash and a number with a leading zero.
C9_Witness ==
    /\ Returned /\ arg.type = "str"
    /\ LET ms == finditer("JPTW_GRM", arg.chars, 1)
       IN \E k \in DOMAIN ms :
            /\ Head(ms[k].g1) = "0"
            /\ \E q \in ms[k].start..(ms[k].end - 1) : arg.chars[q] \in Whitespace
            /\ F_JPTW \o ms[k].g1 \o F_GRM \o ms[k].g2 \in Range(result)

AgiTag == <<"[", "H", "V", "D", "C", "-", "A", "G", "I", "]">>

F_AGI_JPTW == <<"H", "V", "D", "C", "-", "A", "G", "I", "-", "J", "P", "T", "W">>

F_AGI_GRM == <<"-", "G", "R", "M">>

\* C10: a pair preceded by an [HVDC-AGI] tag gives the composite code
\* HVDC-AGI-JPTW<n>-GRM<m>, next to the standalone form JPTW-<n>/GRM-<m>.
C10_AgiTagComposite ==
    pc = "done" /\ arg.type = "str" =>
        \A i \in DOMAIN arg.chars :
            LET ms == finditer("JPTW_GRM", arg.chars, i + Len(AgiTag))
            IN LitAt(arg.chars, i, AgiTag) /\ ms # <<>> =>
                /\ F_AGI_JPTW \o ms[1].g1 \o F_AGI_GRM \o ms[1].g2 \in Range(result)
                /\ F_JPTW \o ms[1].g1 \o F_GRM \o ms[1].g2 \in Range(result)

\* A colon at i of s, optional whitespace, then a code whose first segment is
\* a run of characters of First and which has at least two further
\* hyphen-joined alphanumeric segments; the result is the position after the
\* code, or 0 when there is none.
ColonCodeEnd(s, i, First) ==
    LET p1 == RunEnd(s, i + 1, Whitespace)
        p2 == RunEnd(s, p1, First)
        seg == SegmentsEnd(s, p2, 0)
    IN IF CharAt(s, i, ":") /\ p2 > p1 /\ seg[2] >= 2 THEN seg[1] ELSE 0

ColonCode(s, i, First) == SubSeq(s, RunEnd(s, i + 1, Whitespace), ColonCodeEnd(s, i, First) - 1)

\* C11 (as amended): a colon, optional whitespace and a code whose first
\* segment is letters only and which has at least three hyphen-joined
\* segments in all puts the code, upper-cased and cut before whatever follows
\* its last segment, into the result.
C11_ColonCodeLetterFirst ==
    (Returned /\ arg.type = "str") =>
        \A i \in DOMAIN arg.chars :
            ColonCodeEnd(arg.chars, i, Letters) > 0 =>
                upper(ColonCode(arg.chars, i, Letters)) \in Range(result)

\* A subject whose colon code is followed by a parenthetical, and one written
\* in lower case: the code is returned upper-cased without the parenthetical.
C11_Witness ==
    /\ Returned
    /\ arg.type = "str"
    /\ \E i \in DOMAIN arg.chars :
          LET e == ColonCodeEnd(arg.chars, i, Letters)
          IN /\ e > 0
             /\ CharAt(arg.chars, e, "(")
             /\ upper(ColonCode(arg.chars, i, Letters)) \in Range(result)

\* C11 as the specification words it: any code of three or more hyphen-joined
\* alphanumeric segments after a colon is returned.
C11_ColonCodeAnyFirst ==
    (Returned /\ arg.type = "str") =>
        \A i \in DOMAIN arg.chars :
            ColonCodeEnd(arg.chars, i, Alnum) > 0 =>
                upper(ColonCode(arg.chars, i, Alnum)) \in Range(result)

\* e is "JPTW-" digits "/GRM-" digits.
IsJptwGrmEntry(e) ==
    LET p == RunEnd(e, Len(F_JPTW) + 1, Digits)
        q == RunEnd(e, p + Len(F_GRM), Digits)
    IN /\ Len(e) >= Len(F_JPTW) + Len(F_GRM) + 2
       /\ SubSeq(e, 1, Len(F_JPTW)) = F_JPTW
       /\ p > Len(F_JPTW) + 1
       /\ p + Len(F_GRM) - 1 <= Len(e)
       /\ SubSeq(e, p, p + Len(F_GRM) - 1) = F_GRM
       /\ q > p + Len(F_GRM)
       /\ q = Len(e) + 1

PlainCode(e) == e # <<>> /\ \A k \in DOMAIN e : e[k] \in UpperLetters \cup Digits \cup {"-"}

\* C12 (as amended): every returned string is upper-case, has no whitespace
\* at either end and consists of ASCII letters, digits and hyphens only,
\* except that a JPTW/GRM entry has the form JPTW-<digits>/GRM-<digits> and
\* so holds one slash.
C12_CanonicalCharacters ==
    Returned => \A k \in DOMAIN result : PlainCode(result[k]) \/ IsJptwGrmEntry(result[k])

\* A subject with lower-case letters and whitespace in it gives a plain code
\* and a JPTW/GRM entry.
C12_Witness ==
    /\ Returned
    /\ arg.type = "str"
    /\ arg.chars # upper(arg.chars)
    /\ \E i \in DOMAIN arg.chars : arg.chars[i] \in Whitespace
    /\ \E k \in DOMAIN result : PlainCode(result[k])
    /\ \E k \in DOMAIN result : IsJptwGrmEntry(result[k])

\* C12 as the specification words it: letters, digits and hyphens only.
C12_OnlyLettersDigitsHyphens ==
    Returned => \A k \in DOMAIN result : PlainCode(result[k])

----------------------------------------------------------------------------
(* Properties of the alias resolvers.                                      *)

\* The token with NFKC applied, trimmed and lower-cased.
TokenKey == lower(strip(NFKC(arg.chars)))

Resolved(f) == pc = "done" /\ op = f

\* C14: a token that is a table key up to letter case and surrounding
\* whitespace resolves to the display name of that key; any other token
\* resolves to the trimmed token in title case (vendor) or in upper case
\* (site).
C14_AliasLookupAndFallback ==
    /\ Resolved("match_vendor_alias") =>
          /\ \A k \in DOMAIN VENDOR_ALIASES : TokenKey = k => result = VENDOR_ALIASES[k]
          /\ TokenKey \notin DOMAIN VENDOR_ALIASES => result = title(strip(arg.chars))
          /\ arg.chars = <<" ", "H", "E", " ">> => result = VENDOR_ALIASES[<<"h", "e">>]
          /\ arg.chars = <<"s", "a", "m", "s", "u", "n", "g", " ", "c", "&", "t">> => result = <<"S", "a", "m", "s", "u", "n", "g", " ", "C", "&", "T">>
    /\ Resolved("match_site_alias") =>
          /\ \A k \in DOMAIN SITE_ALIASES : TokenKey = k => result = SITE_ALIASES[k]
          /\ TokenKey \notin DOMAIN SITE_ALIASES => result = upper(strip(arg.chars))

\* " HE " has been resolved to "Hitachi Energy".
C14_Witness ==
    /\ Resolved("match_vendor_alias")
    /\ arg.chars = <<" ", "H", "E", " ">>
    /\ result = <<"H", "i", "t", "a", "c", "h", "i", " ", "E", "n", "e", "r", "g", "y">>

\* C15: both resolvers return a non-empty string for every string token.
C15_AliasNeverEmpty == pc = "done" => (raised = "none" /\ result # <<>>)

----------------------------------------------------------------------------
(* Properties of score_similarity and fuzzy_contains.                      *)

Scored == pc = "done" /\ op = "score_similarity"

\* C16: the score of (a, b) is the score of (b, a).
C16_Symmetric == Scored => result = score_similarity(other, arg.chars)

\* C17: a score lies between 0.0 and 1.0, and it is 1.0 when the two strings
\* are the same after NFKC, trimming and lower-casing.
C17_RangeAndIdentity ==
    Scored =>
        /\ result \in 0..10000
        /\ lower(strip(NFKC(arg.chars))) = lower(strip(NFKC(other))) => result = 10000

\* Two strings that differ as given and are the same after normalisation
\* have been scored 1.0.
C17_Witness ==
    /\ Scored
    /\ arg.chars # other
    /\ lower(strip(NFKC(arg.chars))) = lower(strip(NFKC(other)))
    /\ result = 10000

ContainsReturned == pc = "done" /\ op \in {"fuzzy_contains", "fuzzy_contains_default"}

\* C18: fuzzy_contains is true exactly when some candidate scores at or
\* above the threshold, false for no candidates, and the threshold of a call
\* that gives none is 0.82.
C18_SomeCandidateAtOrAbove ==
    ContainsReturned =>
        LET th == IF op = "fuzzy_contains_default" THEN 8200 ELSE threshold
        IN /\ result = (\E k \in DOMAIN candidates : score_similarity(arg.chars, candidates[k]) >= th)
           /\ candidates = <<>> => result = FALSE

\* fuzzy_contains has returned true for candidates of which the best scores
\* exactly the threshold.
C18_Witness ==
    /\ pc = "done" /\ op = "fuzzy_contains"
    /\ threshold \in 1..9999
    /\ result = TRUE
    /\ \A k \in DOMAIN candidates : score_similarity(arg.chars, candidates[k]) <= threshold
    /\ \E k \in DOMAIN candidates : score_similarity(arg.chars, candidates[k]) = threshold

----------------------------------------------------------------------------
(* Properties of concurrent calls.                                         *)

\* What the call of worker w returns when it runs alone.
Alone(w) ==
    CASE workers[w].op = "find_case_codes" -> find_case_codes(StrArg(workers[w].a)).value
      [] workers[w].op = "match_vendor_alias" -> match_vendor_alias(workers[w].a)
      [] workers[w].op = "match_site_alias" -> match_site_alias(workers[w].a)
      [] workers[w].op = "score_similarity" -> score_similarity(workers[w].a, workers[w].b)

\* C19: the three tables stay as they were loaded, and every call a worker
\* finishes has returned what the same call returns when run alone,
\* whatever the other workers did in between.
C19_TablesReadOnly ==
    /\ tables = [patterns |-> COMPILED_PATTERNS, vendors |-> VENDOR_ALIASES, sites |-> SITE_ALIASES]
    /\ \A w \in Workers :
          workers[w].pc = "done" =>
              /\ workers[w].raised = "none"
              /\ workers[w].result = Alone(w)

\* One worker has finished a lookup that fell back to the token while
\* another is in the middle of find_case_codes.
C19_Witness ==
    \E w, v \in Workers :
        /\ w # v
        /\ workers[w].pc = "done"
        /\ workers[w].op = "match_vendor_alias"
        /\ workers[w].a = <<"x", "NBSP", "y">>
        /\ workers[w].result = title(<<"x", "NBSP", "y">>)
        /\ workers[v].pc = "jptw_grm"
        /\ workers[v].matches # {}

----------------------------------------------------------------------------
(* Properties of the legacy extractor.                                     *)

Extracted == pc = "done" /\ op = "extract_case_numbers_enhanced"

\* HVDC-ADOPT-<LETTERS>-<number> for each token <letters>-<digits>[-<alphanumerics>]
\* of the text g of a parenthesised group.
LegacyGroupExpansions(g) ==
    LET ts == finditer("PAREN_INNER", g, 1)
    IN {LIT_HVDC_ADOPT \o upper(ts[k].g1) \o <<"-">> \o ts[k].g2 : k \in DOMAIN ts}

\* The expansions of all parenthesised groups of s.
LegacyExpansions(s) ==
    LET ps == finditer("PAREN_ANY", s, 1)
    IN UNION {LegacyGroupExpansions(ps[k].g1) : k \in DOMAIN ps}

\* The HVDC-prefixed codes of s: the matches of pattern1 and of pattern2.
HvdcCodes(s) ==
    LET m1 == finditer("LEGACY_ADOPT", s, 1)
        m2 == finditer("LEGACY_GENERIC", s, 1)
    IN Range(m1) \cup Range(m2)

\* An HVDC-prefixed code of s that does not lie inside a parenthesised group.
HvdcOutsideParens(s) ==
    LET ps == finditer("PAREN_ANY", s, 1)
    IN \E m \in HvdcCodes(s) :
          ~ \E k \in DOMAIN ps : ps[k].start < m.start /\ m.end < ps[k].end

\* C20 (as amended): every token of a parenthesised group yields its
\* HVDC-ADOPT code, and for a subject with no HVDC-prefixed code at all,
\* inside or outside parentheses, the returned codes are exactly these
\* expansions, so a group without a token yields nothing.
C20_ParenExpansions ==
    Extracted =>
        /\ LegacyExpansions(arg.chars) \subseteq Range(result)
        /\ HvdcCodes(arg.chars) = {} => Range(result) = LegacyExpansions(arg.chars)

\* A subject with a group without a token and a group with one, and with no
\* HVDC-prefixed code: the one expansion has been returned.
C20_Witness ==
    /\ Extracted
    /\ HvdcCodes(arg.chars) = {}
    /\ LET ps == finditer("PAREN_ANY", arg.chars, 1)
       IN /\ \E k \in DOMAIN ps : LegacyGroupExpansions(ps[k].g1) = {}
          /\ \E k \in DOMAIN ps : LegacyGroupExpansions(ps[k].g1) # {}
    /\ result # <<>>
    /\ Range(result) = LegacyExpansions(arg.chars)

\* C20 as the specification words it: exact whenever no HVDC-prefixed code
\* stands outside parentheses.
C20_ExactWithoutOutsideCode ==
    Extracted =>
        /\ LegacyExpansions(arg.chars) \subseteq Range(result)
        /\ ~HvdcOutsideParens(arg.chars) => Range(result) = LegacyExpansions(arg.chars)

\* C29: the list the legacy extractor returns never holds two codes that are
\* equal when compared case-insensitively, also when a HVDC-ADOPT code
\* stands in the subject more than once or in full and as a parenthesised
\* short form.
C29_LegacyNoDuplicates ==
    Extracted =>
        \A i, j \in DOMAIN result : i # j => lower(result[i]) # lower(result[j])

----------------------------------------------------------------------------
(* Properties of the walk over the email files.                            *)

Listed == pc = "done" /\ op = "iter_email_files"

\* The lower-cased suffix of entry i.
SuffixLower(i) == lower(tree[i].suffix)

\* How often path i stands in a list of paths.
TimesYielded(list, i) == Cardinality({k \in DOMAIN list : list[k] = i})

\* C22 (as the code has it): with max_files unset, iter_email_files yields,
\* once each, exactly the regular files whose lower-cased suffix is the
\* lower-cased form of an entry of allowed_extensions and of no entry of
\* outlook_extensions; a file whose lower-cased suffix is the lower-cased
\* form of an entry of outlook_extensions is never yielded, even when the
\* suffix is also listed as allowed.
C22_EligibleCaseInsensitive ==
    (Listed /\ settings.max_files = NoneArg) =>
        /\ \A i \in DOMAIN tree :
              TimesYielded(result, i) =
                  IF /\ tree[i].is_file
                     /\ \E e \in Range(settings.allowed_extensions) : lower(e) = SuffixLower(i)
                     /\ ~\E e \in Range(settings.outlook_extensions) : lower(e) = SuffixLower(i)
                  THEN 1 ELSE 0
        /\ \A k \in DOMAIN result :
              ~\E e \in Range(settings.outlook_extensions) : lower(e) = SuffixLower(result[k])

\* A walk with ".msg" listed as allowed and as an Outlook extension, over a
\* tree with an Outlook file, a directory and an upper-case email file: the
\* email file is all that is yielded.
C22_Witness ==
    /\ Listed /\ settings.max_files = NoneArg
    /\ <<".", "m", "s", "g">> \in Range(settings.allowed_extensions)
    /\ <<".", "m", "s", "g">> \in Range(settings.outlook_extensions)
    /\ \E i, j, k \in DOMAIN tree :
          /\ tree[i].suffix = <<".", "M", "S", "G">>
          /\ ~tree[j].is_file
          /\ tree[k].suffix = <<".", "E", "M", "L">>
          /\ result = <<k>>

\* C22 (as stated): with max_files unset, the yielded files are exactly the
\* regular files whose lower-cased suffix is in allowed_extensions and not in
\* outlook_extensions, and a file with suffix .pst, .ost or .msg is never
\* yielded.
C22_EligibleAsListed ==
    (Listed /\ settings.max_files = NoneArg) =>
        /\ \A i \in DOMAIN tree :
              TimesYielded(result, i) =
                  IF /\ tree[i].is_file
                     /\ SuffixLower(i) \in Range(settings.allowed_extensions)
                     /\ SuffixLower(i) \notin Range(settings.outlook_extensions)
                  THEN 1 ELSE 0
        /\ \A k \in DOMAIN result : SuffixLower(result[k]) \notin Range(DEFAULT_OUTLOOK_EXT)

\* C27: when max_files is an integer n >= 0, iter_email_files yields at most
\* n paths.
C27_AtMostMaxFiles ==
    (Listed /\ settings.max_files.type = "int") =>
        Len(result) <= settings.max_files.num

----------------------------------------------------------------------------
(* Properties of gather_metadata.                                          *)

\* How many records of a list are the record of path i.
RecordsOf(list, i) == Cardinality({k \in DOMAIN list : list[k].path = i})

\* The tasks whose call of parse_email_file is in progress.
Parsing == {t \in DOMAIN tasks : tasks[t].pc = "parsing"}

\* C21: gather_metadata has one task for each file iter_email_files yields;
\* at every moment the results hold exactly one record for each task that is
\* done and whose file parsed, none for a file whose parse raised
\* EmailParsingError and none of anything else, whatever the order of the
\* steps; it returns when every task is done, the failed ones too, and
\* returns these results.
C21_OneRecordPerParsedFile ==
    op = "gather_metadata" =>
        /\ [t \in DOMAIN tasks |-> tasks[t].target] = iter_email_files(tree, settings)
        /\ \A t \in DOMAIN tasks :
              RecordsOf(results, tasks[t].target) =
                  IF tasks[t].pc = "done" /\ tree[tasks[t].target].parses THEN 1 ELSE 0
        /\ \A k \in DOMAIN results : \E t \in DOMAIN tasks : results[k].path = tasks[t].target
        /\ pc = "returned" =>
              /\ result = results
              /\ \A t \in DOMAIN tasks : tasks[t].pc = "done"

\* gather_metadata returned for three files, one of which did not parse,
\* with two workers at a time; the later file's record came first.
C21_Witness ==
    /\ op = "gather_metadata" /\ pc = "returned"
    /\ settings.async_batch_size = 2
    /\ Len(tasks) = 3
    /\ \E t \in DOMAIN tasks : ~tree[tasks[t].target].parses
    /\ Len(result) = 2
    /\ result[1].path > result[2].path

\* C25: during gather_metadata never more than async_batch_size calls of
\* parse_email_file are in progress.
C25_AtMostBatchSizeParsing ==
    op = "gather_metadata" => Cardinality(Parsing) <= settings.async_batch_size

\* Two calls are in progress with async_batch_size 2 and a third task is
\* waiting for the semaphore.
C25_Witness ==
    /\ op = "gather_metadata" /\ pc = "gathering"
    /\ settings.async_batch_size = 2
    /\ Cardinality(Parsing) = 2
    /\ \E t \in DOMAIN tasks : tasks[t].pc = "created"

\* C26: for every set of email files and every async_batch_size >= 0,
\* gather_metadata eventually returns.
C26_GatherCompletes == (pc = "gathering") ~> (pc = "returned")

----------------------------------------------------------------------------
(* Properties of the cargo tracker.                                        *)

\* The row has a date under the label.
HasDate(label) == label \in DOMAIN row /\ row[label] # "NaT"

\* The status of the first applicable rule, in the order of the rules.
FirstRule ==
    IF HasDate("SHU") \/ HasDate("MIR") \/ HasDate("DAS") \/ HasDate("AGI") THEN "SITE_DELIVERED"
    ELSE IF \E w \in DOMAIN WAREHOUSE_COLUMNS : HasDate(WAREHOUSE_COLUMNS[w]) THEN "WAREHOUSE"
    ELSE IF HasDate("Customs\nStart") /\ ~HasDate("Customs\nClose") THEN "CUSTOMS"
    ELSE IF HasDate("ATA ") THEN "PORT_ARRIVAL"
    ELSE IF HasDate("ATD") \/ HasDate("ETD")
         THEN IF HasDate("ETA") /\ row["ETA"] \in {"naive past", "aware past"}
              THEN "DELAYED" ELSE "IN_TRANSIT"
    ELSE "NOT_SHIPPED"

\* C23: determine_status returns the status of the first applicable rule
\* (site date, warehouse date, open customs, ATA, ATD or ETD with DELAYED for
\* an ETA in the past and IN_TRANSIT otherwise, NOT_SHIPPED), and agrees with
\* the legacy HVDCCargoTracker.determine_status on every row.
C23_FirstRuleAndLegacy ==
    (pc = "done" /\ op = "determine_status") =>
        /\ result.refactored = FirstRule
        /\ result.refactored = result.legacy

Attached == pc = "done" /\ op = "attach_email_context"

\* The entries of the email payload.
Emails == get(payload, "emails", <<>>)

\* The entries whose case is the given one.
EntriesOf(case) == {k \in DOMAIN Emails : "case" \in DOMAIN Emails[k] /\ Emails[k]["case"] = case}

\* The last of them.
LastOf(case) == CHOOSE k \in EntriesOf(case) : \A j \in EntriesOf(case) : j <= k

\* C24: attach_email_context changes nothing but the vendor field, and only
\* of records whose case is the case of an entry of the email payload: such
\* a record gets the vendor of the last entry with its case (and keeps its
\* own when that entry names none); every other field and record is as it
\* was, and nothing at all changes when the path is None or names no file.
C24_OnlyVendorOfMatchedCases ==
    Attached =>
        /\ Len(records) = Len(arg)
        /\ \A i \in DOMAIN records :
              /\ [records[i] EXCEPT !.vendor = arg[i].vendor] = arg[i]
              /\ records[i].vendor =
                    IF email_path = "exists" /\ EntriesOf(arg[i].case) # {}
                       /\ "vendor" \in DOMAIN Emails[LastOf(arg[i].case)]
                    THEN Emails[LastOf(arg[i].case)]["vendor"]
                    ELSE arg[i].vendor

\* The call was made with a file that has two entries for case A with
\* different vendors: the record of case A has the vendor of the second and
\* the record of case B is as it was.
C24_Witness ==
    /\ Attached /\ email_path = "exists"
    /\ Len(Emails) = 2 /\ EntriesOf("A") = {1, 2}
    /\ "vendor" \in DOMAIN Emails[1] /\ "vendor" \in DOMAIN Emails[2]
    /\ Emails[1]["vendor"] # Emails[2]["vendor"]
    /\ Len(records) = 2
    /\ arg[1].case = "A" /\ records[1].vendor = Emails[2]["vendor"] /\ records[1].vendor # arg[1].vendor
    /\ arg[2].case = "B" /\ records[2] = arg[2]

----------------------------------------------------------------------------
(* Properties of build_summary.                                            *)

Summarized == pc = "done" /\ op = "build_summary"

\* The codes HVDC-ADOPT-<V>-<N> extracted from item i.
AdoptCodes(i) ==
    {code \in Range(counted_keys(<<items[i]>>, "cases")) :
        /\ Len(split(code, "-")) >= 4
        /\ split(code, "-")[1] = <<"H", "V", "D", "C">>
        /\ split(code, "-")[2] = <<"A", "D", "O", "P", "T">>}

\* The vendor of such a code: match_vendor_alias(<V>).
VendorOf(code) == match_vendor_alias(split(code, "-")[3])

\* The emails and codes that count for a vendor.
CountingFor(vendor) ==
    UNION {{<<i, code>> : code \in {c \in AdoptCodes(i) : VendorOf(c) = vendor}} : i \in DOMAIN items}

\* The count a list of <<key, count>> pairs has for a key.
CountOf(pairs, key) ==
    IF \E k \in DOMAIN pairs : pairs[k][1] = key
    THEN pairs[CHOOSE k \in DOMAIN pairs : pairs[k][1] = key][2]
    ELSE 0

\* C28: build_summary counts every code HVDC-ADOPT-<V>-<N> extracted from an
\* email's subject and first 200 body characters for the vendor
\* match_vendor_alias(<V>), once for each email and distinct code.
C28_AdoptCodesCountForTheirVendor ==
    Summarized =>
        \A i \in DOMAIN items : \A code \in AdoptCodes(i) :
            CountOf(result.vendors, VendorOf(code)) >= Cardinality(CountingFor(VendorOf(code)))

(***************************************************************************)
(* Properties of configure_logger.                                         *)
(***************************************************************************)

\* The calls so far that returned a logger registered under key.
ReturnedFor(key) ==
    {i \in DOMAIN results :
        /\ results[i].raised = "none"
        /\ (IF results[i].name \in {"", "root"} THEN "root" ELSE results[i].name) = key}

FirstReturnedFor(key) == CHOOSE i \in ReturnedFor(key) : \A j \in ReturnedFor(key) : i <= j

\* C30 (as amended): a logger that had no handlers before the first call
\* with its name has, after one or more successful calls, exactly the
\* rotating file handler and the stream handler that the first successful
\* call built from its own settings, level INFO and propagate False, however
\* many calls followed and whatever settings they passed; the root logger,
\* which had handlers before any call, is returned as it was.
C30_ConfiguredOnceWhenUnconfigured ==
    /\ \A key \in DOMAIN loggers \ {"root"} :
        ReturnedFor(key) # {} =>
            LET first == results[FirstReturnedFor(key)].settings
                formatter == IF first.log_json THEN "JsonFormatter" ELSE "Formatter"
            IN loggers[key] =
                [handlers |-> <<[kind |-> "RotatingFileHandler",
                                 file |-> <<first.log_directory, key, ".log">>,
                                 maxBytes |-> first.log_rotation_mb * 1024 * 1024,
                                 backupCount |-> first.log_retention,
                                 formatter |-> formatter],
                                [kind |-> "StreamHandler", file |-> <<>>,
                                 maxBytes |-> 0, backupCount |-> 0, formatter |-> formatter]>>,
                 level |-> "INFO",
                 propagate |-> FALSE]
    /\ Len(loggers["root"].handlers) = 2
    /\ loggers["root"].handlers[1].kind = "FileHandler"
    /\ loggers["root"].handlers[2].kind = "StreamHandler"
    /\ loggers["root"].propagate

\* Three calls with one name: the first fails, the second succeeds, the
\* third succeeds with other settings.
C30_Witness ==
    /\ Len(results) = 3
    /\ results[1].name = "test" /\ results[2].name = "test" /\ results[3].name = "test"
    /\ results[1].raised = "OSError"
    /\ results[2].raised = "none"
    /\ results[3].raised = "none"
    /\ results[3].settings.log_json # results[2].settings.log_json
    /\ results[3].settings.log_retention # results[2].settings.log_retention
    /\ Len(loggers["test"].handlers) = 2

\* C30 (as stated): after one or more successful calls with a name, the
\* logger of that name has exactly two handlers, a rotating file handler
\* and a stream handler.
C30_TwoHandlersForEveryName ==
    \A key \in DOMAIN loggers :
        ReturnedFor(key) # {} =>
            /\ Len(loggers[key].handlers) = 2
            /\ loggers[key].handlers[1].kind = "RotatingFileHandler"
            /\ loggers[key].handlers[2].kind = "StreamHandler"

====
